---- MODULE Spec2Model ----
(***************************************************************************)
(* A model of the widgetic/docs toolchain: the Spec Syncer                 *)
(* (scripts/sync-openapi.js), the Drift Checker                            *)
(* (scripts/check-openapi-drift.js), the Code Sample Generator             *)
(* (scripts/generate-code-samples.js) and the Link Validator               *)
(* (scripts/validate-links.js).                                            *)
(*                                                                         *)
(* Representation.                                                         *)
(*  - A JavaScript string is a sequence of pieces (TLA+ strings).  Strings *)
(*    the code inspects by character (parameter names) are written one     *)
(*    character per piece; template literals concatenate pieces.  A piece  *)
(*    of several characters is a stretch of text that nothing looks into:  *)
(*    JSON.stringify and JSON.parse escape and unescape the pieces that    *)
(*    are a quote, a backslash or a newline, and leave such a stretch as   *)
(*    it is.                                                               *)
(*  - A JavaScript value is a tagged record (JNull, JBool, JNum, JStr,     *)
(*    JArr, JObj, Undefined).  An object keeps its own keys in property    *)
(*    enumeration order.                                                   *)
(*  - A file's content is a string, so a JSON file is the sequence of its  *)
(*    lexical pieces and JSON.parse really parses it.                      *)
(***************************************************************************)
EXTENDS Integers, Sequences, FiniteSets, TLC

(***************************************************************************)
(* Bounds of the model.                                                    *)
(***************************************************************************)
\* Number literals the JSON texts may hold: -MaxNum .. MaxNum.
MaxNum == 5

(***************************************************************************)
(* JavaScript values.                                                      *)
(***************************************************************************)
Undefined == [t |-> "undefined"]
JNull == [t |-> "null"]
JBool(b) == [t |-> "bool", b |-> b]
JNum(n) == [t |-> "num", n |-> n]
JStr(s) == [t |-> "str", s |-> s]
JArr(a) == [t |-> "arr", a |-> a]
JObj(e) == [t |-> "obj", e |-> e]

IsNullish(v) == v.t \in {"undefined", "null"}

\* ToBoolean: the values `if (v)`, `v || d` and `!v` treat as true.
Truthy(v) ==
  CASE v.t \in {"undefined", "null"} -> FALSE
    [] v.t = "bool" -> v.b
    [] v.t = "num" -> v.n # 0
    [] v.t = "str" -> v.s # <<>>
    [] OTHER -> TRUE

\* F applied to the value of v, v evaluated once: `const r = v; ... r ... r ...`.
Let(v, F(_)) == CHOOSE out \in {F(r) : r \in {v}} : TRUE

\* The elements f[1], ..., f[n] as a sequence, each evaluated once.
AsSequence(f) == f \o <<>>

\* a || b
OrElse(a, b) == Let(a, LAMBDA x : IF Truthy(x) THEN x ELSE b)

\* The index of the first entry of e with key k from position i on, 0 when
\* there is none.
FindKey(e, k, i) ==
  IF \A j \in i..Len(e) : e[j].k # k THEN 0
  ELSE CHOOSE j \in i..Len(e) : e[j].k = k /\ \A h \in i..(j - 1) : e[h].k # k

\* Object.entries(v) of a non-nullish v: an object's own entries, an array's or
\* a string's indexed ones, none for a number or a boolean.
ObjectEntries(v) ==
  CASE v.t = "obj" -> v.e
    [] v.t = "arr" -> [i \in 1..Len(v.a) |-> [k |-> ToString(i - 1), v |-> v.a[i]]]
    [] v.t = "str" -> [i \in 1..Len(v.s) |-> [k |-> ToString(i - 1), v |-> JStr(<<v.s[i]>>)]]
    [] OTHER -> <<>>

\* o[k] / o.k: an own property of an object, an element of an array or a
\* character of a string by its index, undefined otherwise (the code reads no
\* inherited property this way).  Reading a property of null or undefined
\* throws; the callers state that case.
Get(o, k) ==
  Let(ObjectEntries(o), LAMBDA e :
    Let(FindKey(e, k, 1), LAMBDA at : IF at # 0 THEN e[at].v ELSE Undefined))

\* o?.k
GetOpt(o, k) == IF IsNullish(o) THEN Undefined ELSE Get(o, k)

\* Object.keys(o) of an object, in property enumeration order.
ObjectKeys(o) == [i \in 1..Len(o.e) |-> o.e[i].k]

\* The canonical array-index keys ("0", "1", ..., e.g. the response codes "200"
\* and "404"): an object enumerates them first, in ascending numeric order,
\* before its other keys in insertion order.
IndexKeys == {"0", "1", "200", "404"}

IndexOf(k) ==
  CASE k = "0" -> 0 [] k = "1" -> 1 [] k = "200" -> 200 [] k = "404" -> 404
    [] OTHER -> -1

\* Whether a new index key k goes before the entry x: x is a larger index key
\* or no index key at all.
GoesBefore(k, x) == x.k \notin IndexKeys \/ IndexOf(x.k) > IndexOf(k)

\* Where a new index key k goes among the entries e, from position i on: before
\* the first entry it goes before, or at the end.
InsertPos(e, k, i) ==
  CHOOSE j \in i..(Len(e) + 1) :
    /\ j <= Len(e) => GoesBefore(k, e[j])
    /\ \A h \in i..(j - 1) : ~GoesBefore(k, e[h])

\* o[k] = v on an object: an existing key keeps its place, a new index key is
\* sorted in, any other new key is appended.
SetKey(o, k, v) ==
  Let([e |-> o.e, at |-> FindKey(o.e, k, 1), p |-> InsertPos(o.e, k, 1),
       new |-> [k |-> k, v |-> v]],
      LAMBDA c :
        IF c.at # 0 THEN JObj([c.e EXCEPT ![c.at] = c.new])
        ELSE IF k \in IndexKeys
          THEN JObj(SubSeq(c.e, 1, c.p - 1) \o <<c.new>> \o SubSeq(c.e, c.p, Len(c.e)))
        ELSE JObj(Append(c.e, c.new)))

\* delete o[k] on an object.
DeleteKey(o, k) == JObj(SelectSeq(o.e, LAMBDA x : x.k # k))

RECURSIVE ConcatRange(_, _, _)
\* ropes[lo] \o ... \o ropes[hi], halving the range.
ConcatRange(ropes, lo, hi) ==
  IF lo > hi THEN <<>>
  ELSE IF lo = hi THEN ropes[lo]
  ELSE ConcatRange(ropes, lo, (lo + hi) \div 2)
       \o ConcatRange(ropes, (lo + hi) \div 2 + 1, hi)

\* The strings of a sequence one after the other: ropes.join('').
Concat(seqs) == Let(seqs, LAMBDA ropes : ConcatRange(ropes, 1, Len(ropes)))

\* ropes.join(sep)
JoinWith(seqs, sep) ==
  Let(seqs, LAMBDA ropes :
    Concat([i \in 1..Len(ropes) |-> IF i = 1 THEN ropes[i] ELSE sep \o ropes[i]]))

RECURSIVE ToStr(_)
\* String(v), as a template literal or `+` coerces a value.
ToStr(v) ==
  CASE v.t = "undefined" -> <<"undefined">>
    [] v.t = "null" -> <<"null">>
    [] v.t = "bool" -> IF v.b THEN <<"true">> ELSE <<"false">>
    [] v.t = "num" -> <<ToString(v.n)>>
    [] v.t = "str" -> v.s
    [] v.t = "arr" ->
         JoinWith([i \in 1..Len(v.a) |->
                     IF IsNullish(v.a[i]) THEN <<>> ELSE ToStr(v.a[i])], <<",">>)
    [] OTHER -> <<"[object Object]">>

(***************************************************************************)
(* JSON.stringify and JSON.parse, over strings as sequences of pieces.     *)
(***************************************************************************)
\* One piece of a string inside a JSON string literal: the quote, the backslash
\* and the line break are escaped.
EscapePiece(p) ==
  CASE p = "\"" -> "\\\"" [] p = "\\" -> "\\\\" [] p = "\n" -> "\\n" [] OTHER -> p

\* The JSON string literal of the string s.
Quote(s) == <<"\"">> \o [i \in 1..Len(s) |-> EscapePiece(s[i])] \o <<"\"">>

\* The line break and indentation JSON.stringify(v, null, 2) puts before an
\* item at nesting level n; nothing when the output is compact.
Indent(pretty, n) == IF pretty THEN <<"\n">> \o [i \in 1..n |-> "  "] ELSE <<>>

RECURSIVE StringifyValue(_, _, _)
\* The JSON text of the value v at nesting level n.
StringifyValue(v, pretty, n) ==
  CASE v.t \in {"undefined", "null"} -> <<"null">>
    [] v.t = "bool" -> IF v.b THEN <<"true">> ELSE <<"false">>
    [] v.t = "num" -> <<ToString(v.n)>>
    [] v.t = "str" -> Quote(v.s)
    [] v.t = "arr" ->
         IF v.a = <<>> THEN <<"[", "]">>
         ELSE <<"[">>
              \o ConcatRange([i \in 1..Len(v.a) |->
                                (IF i = 1 THEN <<>> ELSE <<",">>) \o Indent(pretty, n + 1)
                                \o StringifyValue(v.a[i], pretty, n + 1)],
                             1, Len(v.a))
              \o Indent(pretty, n) \o <<"]">>
    [] OTHER ->
         LET kept == SelectSeq(v.e, LAMBDA x : x.v.t # "undefined")
         IN IF kept = <<>> THEN <<"{", "}">>
            ELSE <<"{">>
                 \o ConcatRange([i \in 1..Len(kept) |->
                                   (IF i = 1 THEN <<>> ELSE <<",">>) \o Indent(pretty, n + 1)
                                   \o Quote(<<kept[i].k>>) \o <<":">>
                                   \o (IF pretty THEN <<" ">> ELSE <<>>)
                                   \o StringifyValue(kept[i].v, pretty, n + 1)],
                                1, Len(kept))
                 \o Indent(pretty, n) \o <<"}">>

\* JSON.stringify(value) (pretty = FALSE) and JSON.stringify(value, null, 2)
\* (pretty = TRUE) of a value at nesting level n.  A property whose value is
\* undefined is left out; an undefined array element is written null.
Stringify(value, pretty, n) == Let(value, LAMBDA v : StringifyValue(v, pretty, n))

\* JSON white space.
IsWs(p) == p \in {" ", "  ", "\n", "\t"}

NumRange == (0 - MaxNum)..MaxNum

IsNumPiece(p) == \E n \in NumRange : ToString(n) = p

NumOf(p) == CHOOSE n \in NumRange : ToString(n) = p

RECURSIVE FlattenRange(_, _, _)
FlattenRange(s, lo, hi) ==
  IF lo > hi THEN ""
  ELSE IF lo = hi THEN s[lo]
  ELSE FlattenRange(s, lo, (lo + hi) \div 2) \o FlattenRange(s, (lo + hi) \div 2 + 1, hi)

\* The pieces of a string as one piece: an object's key.
Flatten(str) == Let(str, LAMBDA s : FlattenRange(s, 1, Len(s)))

RECURSIVE Running(_, _, _)
\* The running sums of w[lo..hi], halving the range.
Running(w, lo, hi) ==
  IF lo > hi THEN <<>>
  ELSE IF lo = hi THEN <<w[lo]>>
  ELSE Let([l |-> Running(w, lo, (lo + hi) \div 2),
            r |-> Running(w, (lo + hi) \div 2 + 1, hi)],
           LAMBDA c : c.l \o [i \in 1..Len(c.r) |-> c.r[i] + c.l[Len(c.l)]])

\* The quote pieces up to each piece of a text: a piece that is no quote lies
\* inside a string literal when their number is odd.
QuoteCount(txt) ==
  Let([i \in 1..Len(txt) |-> IF txt[i] = "\"" THEN 1 ELSE 0],
      LAMBDA w : Running(w, 1, Len(w)))

\* How a piece outside the string literals changes the nesting depth.
Nesting(p) == IF p \in {"{", "["} THEN 1 ELSE IF p \in {"}", "]"} THEN -1 ELSE 0

\* The lexical scan of a text: for each piece, the quote pieces up to it and the
\* nesting depth after it.
Lex(text) ==
  Let(text, LAMBDA txt :
    Let(QuoteCount(txt), LAMBDA q :
      Let([i \in 1..Len(txt) |->
             IF q[i] % 2 = 1 \/ txt[i] = "\"" THEN 0 ELSE Nesting(txt[i])],
          LAMBDA w : [txt |-> txt, q |-> q, dep |-> Running(w, 1, Len(w))])))

\* Piece i is a token or white space of the JSON text: no part of a string
\* literal.
Structural(L, i) == L.q[i] % 2 = 0 /\ L.txt[i] # "\""

IsGap(L, i) == Structural(L, i) /\ IsWs(L.txt[i])

\* The first piece of a..b that is no white space (b + 1 when all are), and the
\* last (a - 1 when all are).
TrimLo(L, a, b) ==
  CHOOSE j \in a..(b + 1) : (j <= b => ~IsGap(L, j)) /\ \A k \in a..(j - 1) : IsGap(L, k)

TrimHi(L, a, b) ==
  b - (CHOOSE n \in 0..(b - a + 1) :
         /\ n <= b - a => ~IsGap(L, b - n)
         /\ \A k \in (b - n + 1)..b : IsGap(L, k))

\* A failed parse: JSON.parse throws a SyntaxError.
ParseFail == [ok |-> FALSE, v |-> Undefined]

Parsed(v) == [ok |-> TRUE, v |-> v]

\* The character an escape sequence of a string literal stands for.
UnescapePiece(p) ==
  CASE p = "\\\"" -> "\"" [] p = "\\\\" -> "\\" [] p = "\\n" -> "\n" [] OTHER -> p

\* The index of the quote that closes the string literal whose content starts
\* at piece i, or Len(txt) + 1 when none does.
StringEnd(txt, i) ==
  CHOOSE j \in i..(Len(txt) + 1) :
    /\ j <= Len(txt) => txt[j] = "\""
    /\ \A k \in i..(j - 1) : txt[k] # "\""

\* The string literal that is the pieces lo..hi, quotes included.  A raw line
\* break, tab or lone backslash inside it, or a closing quote anywhere but at
\* hi, is a SyntaxError.
ParseString(txt, lo, hi) ==
  IF lo >= hi \/ txt[lo] # "\"" \/ StringEnd(txt, lo + 1) # hi THEN ParseFail
  ELSE IF \E k \in (lo + 1)..(hi - 1) : txt[k] \in {"\n", "\t", "\\"} THEN ParseFail
  ELSE Parsed(JStr([k \in 1..(hi - lo - 1) |-> UnescapePiece(txt[lo + k])]))

RECURSIVE AssignAll(_, _, _)
\* The object that results from assigning the members from the i-th on, in
\* the order written: a repeated key keeps its first place and its last value.
AssignAll(obj, members, i) ==
  IF i > Len(members) THEN obj
  ELSE Let(SetKey(obj, members[i].k, members[i].v),
           LAMBDA next : AssignAll(next, members, i + 1))

\* The object with the members assigned in the order written.
ObjectOf(members) == Let(AsSequence(members), LAMBDA ms : AssignAll(JObj(<<>>), ms, 1))

\* Whether the pieces lo..hi open with a bracket and end with the bracket that
\* closes it.
Encloses(L, lo, hi, close) ==
  /\ lo < hi
  /\ L.txt[hi] = close
  /\ Structural(L, hi)
  /\ L.dep[hi] = L.dep[lo] - 1
  /\ \A i \in lo..(hi - 1) : L.dep[i] >= L.dep[lo]

\* The commas that separate the items of the bracket pair lo..hi, between the
\* brackets themselves.
Separators(L, lo, hi) ==
  <<lo>>
  \o SelectSeq([k \in 1..(hi - lo - 1) |-> lo + k],
               LAMBDA i : L.txt[i] = "," /\ Structural(L, i) /\ L.dep[i] = L.dep[lo])
  \o <<hi>>

\* The items of the bracket pair lo..hi, P applied to the pieces of each.
Items(L, lo, hi, P(_, _)) ==
  LET at == Separators(L, lo, hi)
  IN AsSequence([m \in 1..(Len(at) - 1) |-> P(at[m] + 1, at[m + 1] - 1)])

RECURSIVE ParseRange(_, _, _)

\* One member of an object, the pieces a..b: a string, a colon, a value.
ParseMember(L, a, b) ==
  LET ka == TrimLo(L, a, b)
      ke == StringEnd(L.txt, ka + 1)
      key == ParseString(L.txt, ka, ke)
      colon == TrimLo(L, ke + 1, b)
  IN IF ka > b \/ ke > b \/ ~key.ok \/ colon > b THEN [k |-> "", r |-> ParseFail]
     ELSE IF L.txt[colon] # ":" THEN [k |-> "", r |-> ParseFail]
     ELSE [k |-> Flatten(key.v.s), r |-> ParseRange(L, colon + 1, b)]

\* The object that is the pieces lo..hi, lo being its opening brace.
ParseObject(L, lo, hi) ==
  IF ~Encloses(L, lo, hi, "}") THEN ParseFail
  ELSE IF TrimLo(L, lo + 1, hi - 1) = hi THEN Parsed(JObj(<<>>))
  ELSE Let(Items(L, lo, hi, LAMBDA a, b : ParseMember(L, a, b)), LAMBDA members :
    IF \E m \in 1..Len(members) : ~members[m].r.ok THEN ParseFail
    ELSE Parsed(ObjectOf([m \in 1..Len(members) |->
                            [k |-> members[m].k, v |-> members[m].r.v]])))

\* The array that is the pieces lo..hi, lo being its opening bracket.
ParseArray(L, lo, hi) ==
  IF ~Encloses(L, lo, hi, "]") THEN ParseFail
  ELSE IF TrimLo(L, lo + 1, hi - 1) = hi THEN Parsed(JArr(<<>>))
  ELSE Let(Items(L, lo, hi, LAMBDA a, b : ParseRange(L, a, b)), LAMBDA elements :
    IF \E m \in 1..Len(elements) : ~elements[m].ok THEN ParseFail
    ELSE Parsed(JArr([m \in 1..Len(elements) |-> elements[m].v])))

\* The one JSON value that is the pieces a..b, white space around it aside.
ParseRange(L, a, b) ==
  LET lo == TrimLo(L, a, b)
      hi == TrimHi(L, a, b)
  IN IF lo > hi THEN ParseFail
     ELSE CASE L.txt[lo] = "{" -> ParseObject(L, lo, hi)
            [] L.txt[lo] = "[" -> ParseArray(L, lo, hi)
            [] L.txt[lo] = "\"" -> ParseString(L.txt, lo, hi)
            [] lo < hi -> ParseFail
            [] L.txt[lo] = "true" -> Parsed(JBool(TRUE))
            [] L.txt[lo] = "false" -> Parsed(JBool(FALSE))
            [] L.txt[lo] = "null" -> Parsed(JNull)
            [] IsNumPiece(L.txt[lo]) -> Parsed(JNum(NumOf(L.txt[lo])))
            [] OTHER -> ParseFail

\* JSON.parse(text): ok with the value, or not ok (a SyntaxError is thrown).  The
\* whole text must be one value with white space around it.
JsonParse(text) == Let(Lex(text), LAMBDA L : ParseRange(L, 1, Len(L.txt)))

(***************************************************************************)
(* String helpers of the Code Sample Generator.                            *)
(***************************************************************************)
UpperLetters ==
  <<"A", "B", "C", "D", "E", "F", "G", "H", "I", "J", "K", "L", "M",
    "N", "O", "P", "Q", "R", "S", "T", "U", "V", "W", "X", "Y", "Z">>

LowerLetters ==
  <<"a", "b", "c", "d", "e", "f", "g", "h", "i", "j", "k", "l", "m",
    "n", "o", "p", "q", "r", "s", "t", "u", "v", "w", "x", "y", "z">>

IsUpper(c) == \E i \in 1..26 : UpperLetters[i] = c

IsLower(c) == \E i \in 1..26 : LowerLetters[i] = c

LowerOf(c) == IF IsUpper(c) THEN LowerLetters[CHOOSE i \in 1..26 : UpperLetters[i] = c] ELSE c

UpperOf(c) == IF IsLower(c) THEN UpperLetters[CHOOSE i \in 1..26 : LowerLetters[i] = c] ELSE c

\* s.toLowerCase(), s written one character per piece.
toLowerCase(s) == [i \in 1..Len(s) |-> LowerOf(s[i])]

\* s.includes(sub)
Includes(s, sub) ==
  \E i \in 1..(Len(s) - Len(sub) + 1) : SubSeq(s, i, i + Len(sub) - 1) = sub

\* method.toUpperCase() of a path item's key.
KeyToUpperCase(k) ==
  CASE k = "get" -> "GET" [] k = "post" -> "POST" [] k = "put" -> "PUT"
    [] k = "patch" -> "PATCH" [] k = "delete" -> "DELETE"
    [] k = "summary" -> "SUMMARY" [] k = "servers" -> "SERVERS"
    [] OTHER -> k

\* The pieces of a path template (a key of spec.paths): its literal stretches
\* and its {placeholders}.
PathPieces(k) ==
  CASE k = "/widgets/{id}" -> <<"/widgets/", "{id}">>
    [] k = "/t/{tableName}/rows" -> <<"/t/", "{tableName}", "/rows">>
    [] OTHER -> <<k>>

\* s.replace(piece, by): the first occurrence only.
ReplaceFirst(str, piece, by) ==
  Let(str, LAMBDA s :
    IF \A i \in 1..Len(s) : s[i] # piece THEN s
    ELSE Let(CHOOSE i \in 1..Len(s) : s[i] = piece /\ \A j \in 1..(i - 1) : s[j] # piece,
             LAMBDA at : SubSeq(s, 1, at - 1) \o by \o SubSeq(s, at + 1, Len(s))))

\* s.replace(/piece/g, by)
ReplaceAll(str, piece, by) ==
  Let(str, LAMBDA s :
    Concat([i \in 1..Len(s) |-> IF s[i] = piece THEN by ELSE <<s[i]>>]))

\* encodeURIComponent(s): the reserved characters are percent-encoded.
EncodePiece(p) ==
  CASE p = " " -> "%20" [] p = "/" -> "%2F" [] p = "&" -> "%26" [] p = "=" -> "%3D"
    [] p = "?" -> "%3F" [] p = "#" -> "%23" [] OTHER -> p

encodeURIComponent(s) == [i \in 1..Len(s) |-> EncodePiece(s[i])]

\* s.replace(/([A-Z])/g, '_$1')
UnderscoreUpper(str) ==
  Let(str, LAMBDA s :
    Concat([i \in 1..Len(s) |-> IF IsUpper(s[i]) THEN <<"_", s[i]>> ELSE <<s[i]>>]))

\* Whether /[-_][a-z]/ matches s at position i.  Two matches never overlap: a
\* match ends in a letter and starts with none.
CamelMatch(s, i) == i >= 1 /\ i < Len(s) /\ s[i] \in {"-", "_"} /\ IsLower(s[i + 1])

\* s.replace(/([-_][a-z])/g, g => g[1].toUpperCase())
CamelCase(str) ==
  Let(str, LAMBDA s :
    Concat([i \in 1..Len(s) |->
              IF CamelMatch(s, i) THEN <<>>
              ELSE IF CamelMatch(s, i - 1) THEN <<UpperOf(s[i])>>
              ELSE <<s[i]>>]))

\* [...v] of a truthy v: an array's elements, a string's characters.  Spreading
\* a number, a boolean or a plain object throws a TypeError (not iterable).
Spread(v) ==
  CASE v.t = "arr" -> v.a
    [] v.t = "str" -> [i \in 1..Len(v.s) |-> JStr(<<v.s[i]>>)]
    [] OTHER -> <<>>

SpreadThrows(v) == v.t \in {"num", "bool", "obj"}


(***************************************************************************)
(* The Code Sample Generator: scripts/generate-code-samples.js.            *)
(* A function that can throw has a companion ...Throws predicate.          *)
(***************************************************************************)
BASE_URL == <<"https://api.widgetic.com/v1">>

\* getApiClassName(operationId, tag); tag.replace throws when the tag is a
\* truthy value that is no string.
getApiClassName(operationId, tag) ==
  IF Truthy(tag) THEN SelectSeq(tag.s, LAMBDA c : ~IsWs(c)) \o <<"Api">>
  ELSE <<"Api">>

getApiClassNameThrows(operationId, tag) == Truthy(tag) /\ tag.t # "str"

\* getMethodName(operationId, lang)
getMethodName(operationId, lang) ==
  IF ~Truthy(operationId) THEN <<"execute">>
  ELSE CASE lang \in {"python", "ruby"} ->
              LET u == toLowerCase(UnderscoreUpper(operationId.s))
              IN IF u # <<>> /\ Head(u) = "_" THEN Tail(u) ELSE u
         [] lang = "go" -> <<UpperOf(Head(operationId.s))>> \o Tail(operationId.s)
         [] OTHER -> ToStr(operationId)

getMethodNameThrows(operationId, lang) ==
  Truthy(operationId) /\ lang \in {"python", "ruby", "go"} /\ operationId.t # "str"

\* getExampleValue with the name matched as it is written, not in lower case.
getExampleValueCaseSensitive(param) ==
  IF Truthy(Get(param, "example")) THEN Get(param, "example")
  ELSE IF Truthy(GetOpt(Get(param, "schema"), "example"))
    THEN Get(Get(param, "schema"), "example")
  ELSE LET name == Get(param, "name").s
           type == GetOpt(Get(param, "schema"), "type")
       IN IF Includes(name, <<"i", "d">>) THEN JStr(<<"example-uuid-123">>)
          ELSE IF Includes(name, <<"t", "a", "b", "l", "e">>) THEN JStr(<<"my_table">>)
          ELSE IF Includes(name, <<"f", "e", "a", "t", "u", "r", "e">>)
            THEN JStr(<<"widgets.create">>)
          ELSE CASE type = JStr(<<"integer">>) -> JStr(<<"1">>)
                 [] type = JStr(<<"number">>) -> JStr(<<"1.0">>)
                 [] type = JStr(<<"boolean">>) -> JStr(<<"true">>)
                 [] OTHER -> JStr(<<"example">>)

\* getExampleValue(param) of a non-nullish param.
getExampleValue(param) ==
  IF Truthy(Get(param, "example")) THEN Get(param, "example")
  ELSE IF Truthy(GetOpt(Get(param, "schema"), "example"))
    THEN Get(Get(param, "schema"), "example")
  ELSE LET name == toLowerCase(Get(param, "name").s)
           type == GetOpt(Get(param, "schema"), "type")
       IN IF Includes(name, <<"i", "d">>) THEN JStr(<<"example-uuid-123">>)
          ELSE IF Includes(name, <<"t", "a", "b", "l", "e">>) THEN JStr(<<"my_table">>)
          ELSE IF Includes(name, <<"f", "e", "a", "t", "u", "r", "e">>)
            THEN JStr(<<"widgets.create">>)
          ELSE CASE type = JStr(<<"integer">>) -> JStr(<<"1">>)
                 [] type = JStr(<<"number">>) -> JStr(<<"1.0">>)
                 [] type = JStr(<<"boolean">>) -> JStr(<<"true">>)
                 [] OTHER -> JStr(<<"example">>)

\* param.name.toLowerCase() throws when no example is given and the name is
\* missing or no string.
getExampleValueThrows(param) ==
  /\ ~Truthy(Get(param, "example"))
  /\ ~Truthy(GetOpt(Get(param, "schema"), "example"))
  /\ Get(param, "name").t # "str"

\* (parameters || []).filter(p => p.in === where); p.in throws on a null p.
ParamsIn(parameters, where) ==
  SelectSeq(parameters, LAMBDA p : Get(p, "in") = JStr(<<where>>))

ParamsInThrows(parameters) == \E i \in 1..Len(parameters) : IsNullish(parameters[i])

RECURSIVE SubstitutePath(_, _, _)
\* The loop of generateExamplePath over the path parameters, from the i-th on.
SubstitutePath(examplePath, pathParams, i) ==
  IF i > Len(pathParams) THEN examplePath
  ELSE Let(ReplaceFirst(examplePath,
                        "{" \o Flatten(ToStr(Get(pathParams[i], "name"))) \o "}",
                        ToStr(getExampleValue(pathParams[i]))),
           LAMBDA next : SubstitutePath(next, pathParams, i + 1))

\* generateExamplePath(pathTemplate, parameters)
generateExamplePath(pathTemplate, parameters) ==
  Let(ParamsIn(parameters, "path"), LAMBDA pathParams :
    SubstitutePath(PathPieces(pathTemplate), pathParams, 1))

generateExamplePathThrows(pathTemplate, parameters) ==
  \/ ParamsInThrows(parameters)
  \/ Let(ParamsIn(parameters, "path"), LAMBDA pathParams :
        \E i \in 1..Len(pathParams) : getExampleValueThrows(pathParams[i]))

\* How many of the query parameters the query string shows.
QUERY_PARAMS_SHOWN == 2

\* generateQueryString(parameters)
generateQueryString(parameters) ==
  Let(ParamsIn(parameters, "query"), LAMBDA queryParams :
    LET shown == SubSeq(queryParams, 1,
                        IF Len(queryParams) < QUERY_PARAMS_SHOWN THEN Len(queryParams)
                        ELSE QUERY_PARAMS_SHOWN)
        pairs == [i \in 1..Len(shown) |->
                    ToStr(Get(shown[i], "name")) \o <<"=">>
                    \o encodeURIComponent(ToStr(getExampleValue(shown[i])))]
    IN IF queryParams = <<>> THEN <<>> ELSE <<"?">> \o JoinWith(pairs, <<"&">>))

generateQueryStringThrows(parameters) ==
  \/ ParamsInThrows(parameters)
  \/ Let(ParamsIn(parameters, "query"), LAMBDA queryParams :
        \E i \in 1..Len(queryParams) :
          i <= QUERY_PARAMS_SHOWN /\ getExampleValueThrows(queryParams[i]))

\* The deepest nesting generateExampleFromSchema descends to.
MAX_DEPTH == 3

\* The optional properties an example object shows, and its keys at most.
OPTIONAL_SHOWN == 2

MAX_KEYS == 4

\* The key a value names when it indexes an object: props[key].
KeyOf(v) == Flatten(ToStr(v))

\* required.includes(k) for a key k of Object.keys(props).
RequiredIncludes(required, k) ==
  \E i \in 1..Len(required) : required[i].t = "str" /\ Flatten(required[i].s) = k

\* keys = [...required, ...Object.keys(props).filter(k => !required.includes(k)).slice(0, 2)]
ExampleKeys(props, required) ==
  LET optional == SelectSeq(ObjectKeys(JObj(ObjectEntries(props))),
                            LAMBDA k : ~RequiredIncludes(required, k))
  IN [i \in 1..Len(required) |-> KeyOf(required[i])]
     \o SubSeq(optional, 1, IF Len(optional) < OPTIONAL_SHOWN THEN Len(optional)
                            ELSE OPTIONAL_SHOWN)

\* The keys assigned were the loop to run over all of `keys`.
FilledKeysUncapped(schema) ==
  LET props == OrElse(Get(schema, "properties"), JObj(<<>>))
      keys == ExampleKeys(props, Spread(OrElse(Get(schema, "required"), JArr(<<>>))))
  IN SelectSeq(keys, LAMBDA key : Truthy(Get(props, key)))

\* The keys the loop `for (const key of keys.slice(0, 4))` assigns: those of
\* the first MAX_KEYS keys that `properties` declares.
FilledKeys(schema) ==
  LET props == OrElse(Get(schema, "properties"), JObj(<<>>))
      keys == ExampleKeys(props, Spread(OrElse(Get(schema, "required"), JArr(<<>>))))
  IN SelectSeq(SubSeq(keys, 1, IF Len(keys) < MAX_KEYS THEN Len(keys) ELSE MAX_KEYS),
               LAMBDA key : Truthy(Get(props, key)))

RECURSIVE generateExampleFromSchema(_, _)

\* The object branch of generateExampleFromSchema.
ObjectExample(schema, depth) ==
  Let(FilledKeys(schema), LAMBDA keys :
    ObjectOf([i \in 1..Len(keys) |->
                [k |-> keys[i],
                 v |-> generateExampleFromSchema(Get(Get(schema, "properties"), keys[i]),
                                                 depth + 1)]]))

\* generateExampleFromSchema(schema, depth) of a non-nullish schema.
generateExampleFromSchema(schema, depth) ==
  IF depth > MAX_DEPTH THEN JObj(<<>>)
  ELSE IF Truthy(Get(schema, "example")) THEN Get(schema, "example")
  ELSE IF Get(schema, "type") = JStr(<<"object">>) \/ Truthy(Get(schema, "properties"))
    THEN ObjectExample(schema, depth)
  ELSE IF Get(schema, "type") = JStr(<<"array">>)
    THEN JArr(<<IF Truthy(Get(schema, "items"))
                THEN generateExampleFromSchema(Get(schema, "items"), depth + 1)
                ELSE JStr(<<"item">>)>>)
  ELSE CASE Get(schema, "type") = JStr(<<"string">>) ->
              IF Get(schema, "format") = JStr(<<"uuid">>) THEN JStr(<<"uuid-example-123">>)
              ELSE IF Get(schema, "format") = JStr(<<"email">>)
                THEN JStr(<<"user@example.com">>)
              ELSE IF Get(schema, "format") = JStr(<<"uri">>)
                THEN JStr(<<"https://example.com">>)
              ELSE IF Truthy(Get(schema, "enum")) THEN Get(Get(schema, "enum"), "0")
              ELSE JStr(<<"example">>)
         [] Get(schema, "type") = JStr(<<"integer">>) ->
              OrElse(Get(schema, "minimum"), JNum(1))
         [] Get(schema, "type") = JStr(<<"number">>) ->
              OrElse(Get(schema, "minimum"), JNum(1))
         [] Get(schema, "type") = JStr(<<"boolean">>) -> JBool(TRUE)
         [] OTHER -> JStr(<<"example">>)

RECURSIVE generateExampleFromSchemaThrows(_, _)
\* [...required] throws on a truthy required that is not iterable; so does any
\* nested call.
generateExampleFromSchemaThrows(schema, depth) ==
  IF depth > MAX_DEPTH \/ Truthy(Get(schema, "example")) THEN FALSE
  ELSE IF Get(schema, "type") = JStr(<<"object">>) \/ Truthy(Get(schema, "properties"))
    THEN \/ (Truthy(Get(schema, "required")) /\ SpreadThrows(Get(schema, "required")))
         \/ Let(FilledKeys(schema), LAMBDA keys :
              \E i \in 1..Len(keys) :
                generateExampleFromSchemaThrows(Get(Get(schema, "properties"), keys[i]),
                                                depth + 1))
  ELSE IF Get(schema, "type") = JStr(<<"array">>)
    THEN /\ Truthy(Get(schema, "items"))
         /\ generateExampleFromSchemaThrows(Get(schema, "items"), depth + 1)
  ELSE FALSE

\* The schema generateRequestBody reads: requestBody.content?.['application/json'].
BodyContent(operation) ==
  GetOpt(Get(Get(operation, "requestBody"), "content"), "application/json")

\* generateRequestBody(operation): null when there is no body to show.
generateRequestBody(operation) ==
  IF ~Truthy(Get(operation, "requestBody")) THEN JNull
  ELSE Let(BodyContent(operation), LAMBDA content :
    IF ~Truthy(content) THEN JNull
    ELSE Let([schema |-> Get(content, "schema"), example |-> Get(content, "example")],
             LAMBDA c :
      IF ~Truthy(c.schema) THEN JNull
      ELSE IF Truthy(c.example) THEN c.example
      ELSE IF Truthy(Get(c.schema, "example")) THEN Get(c.schema, "example")
      ELSE generateExampleFromSchema(c.schema, 0)))

generateRequestBodyThrows(operation) ==
  /\ Truthy(Get(operation, "requestBody"))
  /\ Let(BodyContent(operation), LAMBDA content :
        /\ Truthy(content)
        /\ Truthy(Get(content, "schema"))
        /\ ~Truthy(Get(content, "example"))
        /\ generateExampleFromSchemaThrows(Get(content, "schema"), 0))

\* The path parameters' example values as quoted arguments joined by ', '.
QuotedArgs(parameters, q) ==
  Let(ParamsIn(parameters, "path"), LAMBDA pathParams :
    JoinWith([i \in 1..Len(pathParams) |->
                <<q>> \o ToStr(getExampleValue(pathParams[i])) \o <<q>>], <<", ">>))

\* p.name.replace(...) in the TypeScript and Python samples throws when a path
\* parameter's name is missing or no string.
PathParamNameThrows(parameters) ==
  Let(ParamsIn(parameters, "path"), LAMBDA pathParams :
    \E i \in 1..Len(pathParams) : Get(pathParams[i], "name").t # "str")

\* generateCurlSample(method, pathTemplate, operation, parameters)
generateCurlSample(method, pathTemplate, operation, parameters) ==
  LET examplePath == generateExamplePath(pathTemplate, parameters)
      queryString == IF method = "GET" THEN generateQueryString(parameters) ELSE <<>>
      url == BASE_URL \o examplePath \o queryString
  IN <<"curl -X ", KeyToUpperCase(method), " '">> \o url
     \o <<"' \\\n", "  -H 'Authorization: Bearer YOUR_API_KEY'">>
     \o Let(generateRequestBody(operation), LAMBDA body :
          IF Truthy(body) /\ KeyToUpperCase(method) \in {"POST", "PUT", "PATCH"}
          THEN <<" \\\n  -H 'Content-Type: application/json'", " \\\n  -d '">>
               \o ReplaceAll(Stringify(body, TRUE, 0), "'", <<"'\\''">>) \o <<"'">>
          ELSE <<>>)

generateCurlSampleThrows(method, pathTemplate, operation, parameters) ==
  \/ generateExamplePathThrows(pathTemplate, parameters)
  \/ (method = "GET" /\ generateQueryStringThrows(parameters))
  \/ generateRequestBodyThrows(operation)

RECURSIVE TypeScriptParams(_, _, _)
\* The loop that builds the params object of the TypeScript sample, from the
\* i-th path parameter on.
TypeScriptParams(params, pathParams, i) ==
  IF i > Len(pathParams) THEN params
  ELSE Let(SetKey(params, Flatten(CamelCase(Get(pathParams[i], "name").s)),
                  getExampleValue(pathParams[i])),
           LAMBDA next : TypeScriptParams(next, pathParams, i + 1))

\* generateTypeScriptSample(method, pathTemplate, operation, parameters, tag)
generateTypeScriptSample(method, pathTemplate, operation, parameters, tag) ==
  LET operationId == OrElse(Get(operation, "operationId"), JStr(<<"execute">>))
      className == getApiClassName(operationId, tag)
      methodName == getMethodName(operationId, "typescript")
      withPath == Let(ParamsIn(parameters, "path"),
                      LAMBDA pathParams : TypeScriptParams(JObj(<<>>), pathParams, 1))
      withBody(body) == IF Truthy(body)
                        THEN SetKey(withPath,
                                    (IF ObjectEntries(body) = <<>> THEN "undefined"
                                     ELSE ObjectEntries(body)[1].k) \o "Request",
                                    body)
                        ELSE withPath
  IN <<"import { ">> \o className \o <<" } from '@widgetic/api-sdk';\n\n", "const api = new ">>
     \o className \o <<"('YOUR_API_KEY');\n\n", "try {\n", "  const result = await api.">>
     \o methodName
     \o Let(Let(generateRequestBody(operation), withBody), LAMBDA params :
          IF params.e # <<>>
          THEN <<"(">> \o ReplaceAll(Stringify(params, TRUE, 0), "\n", <<"\n", "  ">>)
               \o <<");\n">>
          ELSE <<"();\n">>)
     \o <<"  console.log(result);\n} catch (error) {\n  console.error('Error:', error.message);\n}">>

generateTypeScriptSampleThrows(method, pathTemplate, operation, parameters, tag) ==
  \/ getApiClassNameThrows(OrElse(Get(operation, "operationId"), JStr(<<"execute">>)), tag)
  \/ generateRequestBodyThrows(operation)
  \/ ParamsInThrows(parameters)
  \/ PathParamNameThrows(parameters)
  \/ Let(ParamsIn(parameters, "path"), LAMBDA pathParams :
        \E i \in 1..Len(pathParams) : getExampleValueThrows(pathParams[i]))

\* generatePythonSample(method, pathTemplate, operation, parameters, tag)
generatePythonSample(method, pathTemplate, operation, parameters, tag) ==
  LET operationId == OrElse(Get(operation, "operationId"), JStr(<<"execute">>))
      methodName == getMethodName(operationId, "python")
      args == Let(ParamsIn(parameters, "path"), LAMBDA pathParams :
                [i \in 1..Len(pathParams) |->
                   toLowerCase(UnderscoreUpper(Get(pathParams[i], "name").s)) \o <<"=\"">>
                   \o ToStr(getExampleValue(pathParams[i])) \o <<"\"">>])
              \o Let(generateRequestBody(operation), LAMBDA body :
                   IF Truthy(body) THEN << <<"body=">> \o Stringify(body, FALSE, 0) >>
                   ELSE <<>>)
  IN <<"import widgetic_api\nfrom widgetic_api.rest import ApiException\n\n",
       "configuration = widgetic_api.Configuration(\n    host=\"https://api.widgetic.com/v1\",\n    api_key={\"Authorization\": \"Bearer YOUR_API_KEY\"}\n)\n\n",
       "with widgetic_api.ApiClient(configuration) as api_client:\n    api = widgetic_api.">>
     \o getApiClassName(operationId, tag)
     \o <<"(api_client)\n    try:\n", "        result = api.">> \o methodName \o <<"(">>
     \o JoinWith(args, <<", ">>)
     \o <<")\n        print(result)\n    except ApiException as e:\n        print(f\"Error: {e}\")">>

generatePythonSampleThrows(method, pathTemplate, operation, parameters, tag) ==
  \/ generateTypeScriptSampleThrows(method, pathTemplate, operation, parameters, tag)
  \/ getMethodNameThrows(OrElse(Get(operation, "operationId"), JStr(<<"execute">>)), "python")

\* generateGoSample(method, pathTemplate, operation, parameters, tag)
generateGoSample(method, pathTemplate, operation, parameters, tag) ==
  LET operationId == OrElse(Get(operation, "operationId"), JStr(<<"Execute">>))
      methodName == getMethodName(operationId, "go")
      apiName == ReplaceFirst(getApiClassName(operationId, tag), "Api", <<"API">>)
  IN <<"package main\n\nimport (\n    \"context\"\n    \"fmt\"\n    widgetic \"github.com/widgetic/widgetic-go\"\n)\n\n",
       "func main() {\n    cfg := widgetic.NewConfiguration()\n    cfg.AddDefaultHeader(\"Authorization\", \"Bearer YOUR_API_KEY\")\n    client := widgetic.NewAPIClient(cfg)\n\n",
       "    result, _, err := client.">>
     \o apiName \o <<".">> \o methodName
     \o <<"(context.Background()).Execute()\n    if err != nil {\n        fmt.Printf(\"Error: %v\\n\", err)\n        return\n    }\n    fmt.Printf(\"Result: %v\\n\", result)\n}">>

generateGoSampleThrows(method, pathTemplate, operation, parameters, tag) ==
  \/ getApiClassNameThrows(OrElse(Get(operation, "operationId"), JStr(<<"Execute">>)), tag)
  \/ getMethodNameThrows(OrElse(Get(operation, "operationId"), JStr(<<"Execute">>)), "go")

\* generateRubySample(method, pathTemplate, operation, parameters, tag)
generateRubySample(method, pathTemplate, operation, parameters, tag) ==
  LET operationId == OrElse(Get(operation, "operationId"), JStr(<<"execute">>))
  IN <<"require 'widgetic-api'\n\nWidgeticApi.configure do |config|\n  config.api_key['Authorization'] = 'Bearer YOUR_API_KEY'\n  config.host = 'https://api.widgetic.com/v1'\nend\n\n",
       "api = WidgeticApi::">>
     \o getApiClassName(operationId, tag) \o <<".new\n\nbegin\n", "  result = api.">>
     \o getMethodName(operationId, "ruby") \o <<"(">> \o QuotedArgs(parameters, "'")
     \o <<")\n  p result\nrescue WidgeticApi::ApiError => e\n  puts \"Error: #{e}\"\nend">>

\* generatePhpSample(method, pathTemplate, operation, parameters, tag)
generatePhpSample(method, pathTemplate, operation, parameters, tag) ==
  LET operationId == OrElse(Get(operation, "operationId"), JStr(<<"execute">>))
  IN <<"<?php\nrequire_once __DIR__ . '/vendor/autoload.php';\n\n",
       "$config = Widgetic\\Api\\Configuration::getDefaultConfiguration()\n    ->setApiKey('Authorization', 'Bearer YOUR_API_KEY')\n    ->setHost('https://api.widgetic.com/v1');\n\n",
       "$api = new Widgetic\\Api\\Api\\">>
     \o getApiClassName(operationId, tag)
     \o <<"(\n    new GuzzleHttp\\Client(),\n    $config\n);\n\ntry {\n", "    $result = $api->">>
     \o getMethodName(operationId, "php") \o <<"(">> \o QuotedArgs(parameters, "'")
     \o <<");\n    print_r($result);\n} catch (Exception $e) {\n    echo 'Error: ' . $e->getMessage();\n}">>

\* generateJavaSample(method, pathTemplate, operation, parameters, tag)
generateJavaSample(method, pathTemplate, operation, parameters, tag) ==
  LET operationId == OrElse(Get(operation, "operationId"), JStr(<<"execute">>))
      className == getApiClassName(operationId, tag)
  IN <<"import com.widgetic.api.ApiClient;\nimport com.widgetic.api.ApiException;\nimport com.widgetic.api.Configuration;\nimport com.widgetic.api.auth.ApiKeyAuth;\n",
       "import com.widgetic.api.api.">>
     \o className
     \o <<";\n\npublic class Example {\n    public static void main(String[] args) {\n        ApiClient client = Configuration.getDefaultApiClient();\n        client.setBasePath(\"https://api.widgetic.com/v1\");\n\n",
          "        ApiKeyAuth auth = (ApiKeyAuth) client.getAuthentication(\"Authorization\");\n        auth.setApiKey(\"Bearer YOUR_API_KEY\");\n\n        ">>
     \o className \o <<" api = new ">> \o className
     \o <<"(client);\n        try {\n", "            var result = api.">>
     \o getMethodName(operationId, "java") \o <<"(">> \o QuotedArgs(parameters, "\"")
     \o <<");\n            System.out.println(result);\n        } catch (ApiException e) {\n            System.err.println(\"Error: \" + e.getMessage());\n        }\n    }\n}">>

\* generateCSharpSample(method, pathTemplate, operation, parameters, tag)
generateCSharpSample(method, pathTemplate, operation, parameters, tag) ==
  LET operationId == OrElse(Get(operation, "operationId"), JStr(<<"Execute">>))
      methodName == getMethodName(operationId, "csharp")
      asyncMethodName == (IF methodName = <<>> THEN <<>>
                          ELSE <<UpperOf(Head(methodName))>> \o Tail(methodName))
                         \o <<"Async">>
  IN <<"using Widgetic.Api.Api;\nusing Widgetic.Api.Client;\n\n",
       "var config = new Configuration();\nconfig.BasePath = \"https://api.widgetic.com/v1\";\nconfig.ApiKey.Add(\"Authorization\", \"Bearer YOUR_API_KEY\");\n\n",
       "var api = new ">>
     \o getApiClassName(operationId, tag)
     \o <<"(config);\n\ntry\n{\n", "    var result = await api.">>
     \o asyncMethodName \o <<"(">> \o QuotedArgs(parameters, "\"")
     \o <<");\n    Console.WriteLine(result);\n}\ncatch (ApiException e)\n{\n    Console.WriteLine($\"Error: {e.Message}\");\n}">>

\* One {lang, label, source} record of x-codeSamples.
Sample(lang, label, source) ==
  JObj(<< [k |-> "lang", v |-> JStr(<<lang>>)],
          [k |-> "label", v |-> JStr(<<label>>)],
          [k |-> "source", v |-> JStr(source)] >>)

\* operation.tags?.[0] || 'API'
FirstTag(operation) ==
  OrElse(IF IsNullish(Get(operation, "tags")) THEN Undefined
         ELSE Get(Get(operation, "tags"), "0"),
         JStr(<<"API">>))

\* The samples with the PHP sample before the Ruby one.
generateCodeSamplesPhpFirst(method, pathTemplate, operation, parameters) ==
  Let(FirstTag(operation), LAMBDA tag :
     JArr(<<
       Sample("curl", "cURL", generateCurlSample(method, pathTemplate, operation, parameters)),
       Sample("javascript", "Node.js",
              generateTypeScriptSample(method, pathTemplate, operation, parameters, tag)),
       Sample("python", "Python",
              generatePythonSample(method, pathTemplate, operation, parameters, tag)),
       Sample("go", "Go", generateGoSample(method, pathTemplate, operation, parameters, tag)),
       Sample("php", "PHP", generatePhpSample(method, pathTemplate, operation, parameters, tag)),
       Sample("ruby", "Ruby", generateRubySample(method, pathTemplate, operation, parameters, tag)),
       Sample("java", "Java", generateJavaSample(method, pathTemplate, operation, parameters, tag)),
       Sample("csharp", "C#",
              generateCSharpSample(method, pathTemplate, operation, parameters, tag))>>))

\* generateCodeSamples(method, pathTemplate, operation, parameters)
generateCodeSamples(method, pathTemplate, operation, parameters) ==
  Let(FirstTag(operation), LAMBDA tag :
     JArr(<<
       Sample("curl", "cURL", generateCurlSample(method, pathTemplate, operation, parameters)),
       Sample("javascript", "Node.js",
              generateTypeScriptSample(method, pathTemplate, operation, parameters, tag)),
       Sample("python", "Python",
              generatePythonSample(method, pathTemplate, operation, parameters, tag)),
       Sample("go", "Go", generateGoSample(method, pathTemplate, operation, parameters, tag)),
       Sample("ruby", "Ruby", generateRubySample(method, pathTemplate, operation, parameters, tag)),
       Sample("php", "PHP", generatePhpSample(method, pathTemplate, operation, parameters, tag)),
       Sample("java", "Java", generateJavaSample(method, pathTemplate, operation, parameters, tag)),
       Sample("csharp", "C#",
              generateCSharpSample(method, pathTemplate, operation, parameters, tag)) >>))

\* Whether generateCodeSamples throws: one of its eight generators does (the
\* Ruby, PHP, Java and C# ones throw only where an earlier one already has).
generateCodeSamplesThrows(method, pathTemplate, operation, parameters) ==
  LET tag == FirstTag(operation)
  IN \/ generateCurlSampleThrows(method, pathTemplate, operation, parameters)
     \/ generateTypeScriptSampleThrows(method, pathTemplate, operation, parameters, tag)
     \/ generatePythonSampleThrows(method, pathTemplate, operation, parameters, tag)
     \/ generateGoSampleThrows(method, pathTemplate, operation, parameters, tag)

\* A value with each of its entries' values replaced by F(key, value): what the
\* loops of main leave of an object, or of an array, whose members they mutate
\* in place.  A string, a number or a boolean has no member to mutate.
MapEntries(value, F(_, _)) ==
  Let(value, LAMBDA v :
    CASE v.t = "obj" ->
           JObj([i \in 1..Len(v.e) |-> [k |-> v.e[i].k, v |-> F(v.e[i].k, v.e[i].v)]])
      [] v.t = "arr" -> JArr([i \in 1..Len(v.a) |-> F(ToString(i - 1), v.a[i])])
      [] OTHER -> v)

\* allParams = [...pathParams, ...(operation.parameters || [])]
AllParams(pathItem, operation) ==
  Spread(OrElse(Get(pathItem, "parameters"), JArr(<<>>)))
  \o Spread(OrElse(Get(operation, "parameters"), JArr(<<>>)))

\* The body of main's inner loop for one entry of a path item: the operation
\* as the loop leaves it.  Assigning a property to a string, a number or a
\* boolean does nothing, and JSON.stringify writes no named property of an
\* array.
ProcessOperation(method, pathTemplate, pathItem, operation) ==
  IF method = "parameters" THEN operation
  ELSE IF operation.t = "obj"
    THEN Let([op |-> operation, params |-> AllParams(pathItem, operation)], LAMBDA c :
           DeleteKey(SetKey(c.op, "x-codeSamples",
                            generateCodeSamples(method, pathTemplate, c.op, c.params)),
                     "x-code-samples"))
  ELSE operation

\* Whether the inner loop's body throws for that entry.
ProcessOperationThrows(method, pathTemplate, pathItem, operation) ==
  /\ method # "parameters"
  /\ \/ IsNullish(operation)
     \/ (Truthy(Get(pathItem, "parameters")) /\ SpreadThrows(Get(pathItem, "parameters")))
     \/ (Truthy(Get(operation, "parameters")) /\ SpreadThrows(Get(operation, "parameters")))
     \/ Let([op |-> operation, params |-> AllParams(pathItem, operation)], LAMBDA c :
           generateCodeSamplesThrows(method, pathTemplate, c.op, c.params))

\* The body of main's outer loop for one entry of spec.paths.
ProcessPathItem(pathTemplate, item) ==
  Let(item, LAMBDA pathItem :
    MapEntries(pathItem,
               LAMBDA method, operation :
                 ProcessOperation(method, pathTemplate, pathItem, operation)))

ProcessPathItemThrows(pathTemplate, item) ==
  Let(item, LAMBDA pathItem :
    \/ IsNullish(pathItem)
    \/ \E x \in {ObjectEntries(pathItem)[i] : i \in 1..Len(ObjectEntries(pathItem))} :
         ProcessOperationThrows(x.k, pathTemplate, pathItem, x.v))

\* Whether the loops of main throw on the parsed document: spec.paths of a null
\* spec, Object.entries of a missing paths, or one of the loop bodies.
GenerateThrows(spec) ==
  \/ IsNullish(spec)
  \/ IsNullish(Get(spec, "paths"))
  \/ Let(ObjectEntries(Get(spec, "paths")), LAMBDA paths :
        \E i \in 1..Len(paths) : ProcessPathItemThrows(paths[i].k, paths[i].v))

\* The document as the loops of main leave it.
GenerateAll(spec) ==
  IF spec.t = "obj" THEN SetKey(spec, "paths", MapEntries(Get(spec, "paths"), ProcessPathItem))
  ELSE spec

(***************************************************************************)
(* Files and the outcome of a run.                                         *)
(***************************************************************************)
Absent == [exists |-> FALSE, text |-> <<>>]

FileOf(text) == [exists |-> TRUE, text |-> text]

\* No run yet.
NoRun == [tool |-> "none", exit |-> 0, wrote |-> FALSE, report |-> "none", summary |-> <<>>]

\* What a run leaves to observe: the tool, the process's exit code, whether it
\* wrote the target file, what it reported, and the Syncer's printed counts.
RunOf(tool, exit, wrote, report) ==
  [tool |-> tool, exit |-> exit, wrote |-> wrote, report |-> report, summary |-> <<>>]

\* main() of generate-code-samples.js on the target file: the exit code, and
\* the text written back when the run gets that far.  An uncaught exception
\* (the file is missing, is no JSON, or a loop body throws) ends the process
\* with exit code 1 before anything is written.
GeneratorMain(file) ==
  Let(JsonParse(file.text), LAMBDA parsed :
    IF ~file.exists \/ ~parsed.ok THEN [exit |-> 1, wrote |-> FALSE, text |-> <<>>]
    ELSE IF GenerateThrows(parsed.v) THEN [exit |-> 1, wrote |-> FALSE, text |-> <<>>]
    ELSE [exit |-> 0, wrote |-> TRUE, text |-> Stringify(GenerateAll(parsed.v), TRUE, 0)])

(***************************************************************************)
(* The Spec Syncer: scripts/sync-openapi.js.                               *)
(***************************************************************************)
\* OPENAPI_SOURCE_URL is not set.
NoRemote == [set |-> FALSE, kind |-> "none", body |-> <<>>]

\* The remote source: what a GET of OPENAPI_SOURCE_URL gives.  kind is "ok" (a
\* 2xx response with the body), "http-error" (another status), "unreachable"
\* (fetch rejects) or "no-fetch" (the runtime has no global fetch).
RemoteOf(kind, body) == [set |-> TRUE, kind |-> kind, body |-> body]

\* A faulty readSourceSpec that falls back to the local file when the fetch
\* fails.
readSourceSpecFallback(rem, local) ==
  IF rem.set /\ rem.kind = "ok" THEN [outcome |-> "text", text |-> rem.body]
  ELSE IF ~local.exists THEN [outcome |-> "exit", text |-> <<>>]
  ELSE [outcome |-> "text", text |-> local.text]

\* readSourceSpec(): the text, a thrown Error, or process.exit(1) for a missing
\* local file.  With the URL set the local file is not looked at.
readSourceSpec(rem, local) ==
  IF rem.set
  THEN IF rem.kind = "ok" THEN [outcome |-> "text", text |-> rem.body]
       ELSE [outcome |-> "throw", text |-> <<>>]
  ELSE IF ~local.exists THEN [outcome |-> "exit", text |-> <<>>]
  ELSE [outcome |-> "text", text |-> local.text]

RECURSIVE CountFrom(_, _, _)
CountFrom(counts, levels, i) ==
  IF i > Len(levels) THEN counts
  ELSE Let(counts, LAMBDA acc :
         CountFrom(SetKey(acc, levels[i], JNum(OrElse(Get(acc, levels[i]), JNum(0)).n + 1)),
                   levels, i + 1))

\* endpoints.reduce(...): the number of endpoints per access level.
CountLevels(acc, seqs) == Let(seqs, LAMBDA levels : CountFrom(acc, levels, 1))

\* The endpoints the summary lists, one per entry of each path item other than
\* `parameters`: their access levels (default 'user'), in the order pushed.
EndpointLevels(spec) ==
  Let(ObjectEntries(OrElse(Get(spec, "paths"), JObj(<<>>))), LAMBDA paths :
    Concat([i \in 1..Len(paths) |->
              Let(SelectSeq(ObjectEntries(paths[i].v), LAMBDA x : x.k # "parameters"),
                  LAMBDA ops :
                    [j \in 1..Len(ops) |->
                       KeyOf(OrElse(Get(ops[j].v, "x-access-level"), JStr(<<"user">>)))])]))

\* Whether the summary throws: Object.entries(methods) of a null path item, or
\* operation['x-access-level'] of a null operation.
SummaryThrows(spec) ==
  Let(ObjectEntries(OrElse(Get(spec, "paths"), JObj(<<>>))), LAMBDA paths :
    \E i \in 1..Len(paths) :
      \/ IsNullish(paths[i].v)
      \/ Let(ObjectEntries(paths[i].v), LAMBDA methods :
            \E j \in 1..Len(methods) :
              methods[j].k # "parameters" /\ IsNullish(methods[j].v)))

\* syncOpenApiSpecAsync() and its .catch: the run's record and the target file
\* it leaves.  The target directory is created first in every case.
SyncerMain(rem, local, target) ==
  LET src == readSourceSpec(rem, local)
      keep(report) == [run |-> RunOf("sync", 1, FALSE, report), target |-> target]
  IN IF src.outcome = "exit" THEN keep("source-not-found")
     ELSE IF src.outcome = "throw" THEN keep("error")
     ELSE Let(JsonParse(src.text), LAMBDA parsed :
       IF ~parsed.ok THEN keep("error")
       ELSE IF IsNullish(parsed.v) THEN keep("error")
       ELSE IF target.exists /\ target.text = src.text
         THEN [run |-> RunOf("sync", 0, FALSE, "up-to-date"), target |-> target]
       ELSE IF SummaryThrows(parsed.v)
         THEN [run |-> RunOf("sync", 1, TRUE, "error"), target |-> FileOf(src.text)]
       ELSE [run |-> [RunOf("sync", 0, TRUE, "synced") EXCEPT
                        !.summary = CountLevels(JObj(<<>>), EndpointLevels(parsed.v)).e],
             target |-> FileOf(src.text)])

(***************************************************************************)
(* The Drift Checker: scripts/check-openapi-drift.js.                      *)
(***************************************************************************)
\* readFileOrThrow(filePath)
readFileOrThrow(file) ==
  IF ~file.exists THEN [outcome |-> "throw", text |-> <<>>]
  ELSE [outcome |-> "text", text |-> file.text]

\* A faulty readSourceOrThrow that reads the local file even when
\* OPENAPI_SOURCE_URL is set.
readSourceOrThrowLocalOnly(rem, local) == readFileOrThrow(local)

\* readSourceOrThrow()
readSourceOrThrow(rem, local) ==
  IF rem.set
  THEN IF rem.kind = "ok" THEN [outcome |-> "text", text |-> rem.body]
       ELSE [outcome |-> "throw", text |-> <<>>]
  ELSE readFileOrThrow(local)

\* A faulty normalizeJson that parses the text but hands it back as it is.
normalizeJsonUnserialized(text) ==
  IF JsonParse(text).ok THEN [outcome |-> "text", text |-> text]
  ELSE [outcome |-> "throw", text |-> <<>>]

\* normalizeJson(text): JSON.stringify(JSON.parse(text)), or a thrown
\* SyntaxError.
normalizeJson(text) ==
  Let(JsonParse(text), LAMBDA parsed :
    IF parsed.ok THEN [outcome |-> "text", text |-> Stringify(parsed.v, FALSE, 0)]
    ELSE [outcome |-> "throw", text |-> <<>>])

\* A faulty main() that takes an unreadable side for an empty document.
DriftMainLenient(rem, local, target) ==
  IF readSourceOrThrow(rem, local).outcome = "throw"
     \/ readFileOrThrow(target).outcome = "throw"
  THEN RunOf("drift", 0, FALSE, "in-sync")
  ELSE Let([source |-> normalizeJson(readSourceOrThrow(rem, local).text),
            target |-> normalizeJson(readFileOrThrow(target).text)],
           LAMBDA n :
    IF n.source.outcome = "throw" \/ n.target.outcome = "throw"
    THEN RunOf("drift", 1, FALSE, "failed")
    ELSE IF n.source.text # n.target.text THEN RunOf("drift", 1, FALSE, "drift")
    ELSE RunOf("drift", 0, FALSE, "in-sync"))

\* main() and its catch.
DriftMain(rem, local, target) ==
  LET sourceRaw == readSourceOrThrow(rem, local)
      targetRaw == readFileOrThrow(target)
  IN IF sourceRaw.outcome = "throw" \/ targetRaw.outcome = "throw"
     THEN RunOf("drift", 1, FALSE, "failed")
     ELSE Let([source |-> normalizeJson(sourceRaw.text),
               target |-> normalizeJson(targetRaw.text)],
              LAMBDA n :
       IF n.source.outcome = "throw" \/ n.target.outcome = "throw"
       THEN RunOf("drift", 1, FALSE, "failed")
       ELSE IF n.source.text # n.target.text THEN RunOf("drift", 1, FALSE, "drift")
       ELSE RunOf("drift", 0, FALSE, "in-sync"))

(***************************************************************************)
(* The state: the files the tools share, the source's environment, the     *)
(* content tree, the last two runs, and a call of one of the generator's   *)
(* functions with what it gave.                                            *)
(***************************************************************************)
VARIABLES
  localSource,  \* the local source file (client-sdk/openapi-spec-public.json)
  remote,       \* OPENAPI_SOURCE_URL and what it serves
  targetDir,    \* whether the directory openapi/ exists
  targetFile,   \* the target file (openapi/widgetic-api-public.json)
  site,         \* the file system the Link Validator reads
  cwd,          \* the directory the Link Validator is started in
  errors,       \* the error entries of the last Link Validator run
  last,         \* the most recent run
  prev,         \* the run before it
  call,         \* a function of the generator called on its own, and its argument
  ret           \* what the call gave

vars == <<localSource, remote, targetDir, targetFile, site, cwd, errors, last, prev, call, ret>>

\* What the OpenAPI tools leave alone, and what the Link Validator does.
linkVars == <<site, cwd, errors>>

openApiVars == <<localSource, remote, targetDir, targetFile>>

callVars == <<call, ret>>

\* No call, and no result yet.
NoCall == [fn |-> "none", arg |-> Undefined]

NoRet == [done |-> FALSE, outcome |-> "none", value |-> Undefined]

(***************************************************************************)
(* The Link Validator: scripts/validate-links.js.                          *)
(* A path is the sequence of its segments from the root of the file        *)
(* system; a path string, as the code appends to it and splits it, is the  *)
(* sequence of its pieces: "/", "#", ".", ".." and stretches of other      *)
(* text.  The file system is readable: fs calls on entries that exist      *)
(* succeed, and where a root folder exists it is a directory, so the       *)
(* catch-all of the script is not entered.                                 *)
(***************************************************************************)
\* The directory of the repository: path.resolve(__dirname, '..').
DOCS_ROOT == <<"repo">>

MDX_ROOT_FOLDERS == <<"docs", "api-reference", "resources">>

\* The patterns of LINK_PATTERNS, in their order, by the syntax each matches.
LINK_PATTERNS == <<"markdown", "href-double", "href-single">>

\* A directory and a file of the file system; a file's content is the
\* sequence of the link occurrences in it, each with its syntax.
Dir(name, entries) ==
  [kind |-> "dir", name |-> name, ext |-> "", entries |-> entries, content |-> <<>>]

File(name, ext, content) ==
  [kind |-> "file", name |-> name, ext |-> ext, entries |-> <<>>, content |-> content]

\* entry.name
EntryName(entry) == entry.name \o entry.ext

RECURSIVE NodeAt(_, _, _)
\* The entry at a path below a node, from the i-th segment on; none when the
\* path names nothing.
NodeAt(node, path, i) ==
  IF i > Len(path) THEN [found |-> TRUE, node |-> node]
  ELSE IF \A e \in 1..Len(node.entries) : EntryName(node.entries[e]) # path[i]
    THEN [found |-> FALSE, node |-> node]
  ELSE NodeAt(node.entries[CHOOSE e \in 1..Len(node.entries) :
                             EntryName(node.entries[e]) = path[i]],
              path, i + 1)

\* fs.existsSync(path) of an absolute path
existsSync(path) == NodeAt(site, path, 1).found

\* The segments of a path string: what stands between its slashes.
Segments(str) ==
  LET cuts == <<0>> \o SelectSeq([i \in 1..Len(str) |-> i], LAMBDA i : str[i] = "/")
              \o <<Len(str) + 1>>
  IN [j \in 1..(Len(cuts) - 1) |-> Flatten(SubSeq(str, cuts[j] + 1, cuts[j + 1] - 1))]

\* A path without its empty and "." segments, each ".." taking the segment
\* before it with it: segment i stays when no stretch after it holds more ".."
\* than names.
Normalize(segs) ==
  LET IsName(i) == segs[i] \notin {"", ".", ".."}
      Ups(i, j) == Cardinality({h \in (i + 1)..j : segs[h] = ".."})
      Names(i, j) == Cardinality({h \in (i + 1)..j : IsName(h)})
  IN SelectSeq([i \in 1..Len(segs) |-> i],
               LAMBDA i : IsName(i) /\ \A j \in (i + 1)..Len(segs) : Ups(i, j) <= Names(i, j))

NormalPath(segs) == Let(Normalize(segs), LAMBDA kept : [i \in 1..Len(kept) |-> segs[kept[i]]])

\* path.resolve(base, str) of an absolute path base and a path string.
PathResolve(base, str) ==
  IF str # <<>> /\ str[1] = "/" THEN NormalPath(Segments(str))
  ELSE NormalPath(base \o Segments(str))

\* An absolute path as a path string.
PathString(path) ==
  IF path = <<>> THEN <<"/">> ELSE Concat([i \in 1..Len(path) |-> <<"/", path[i]>>])

RECURSIVE walkDir(_, _)
\* walkDir of findAllMdxFiles on a directory that exists: the .mdx files below
\* it in the order met, each as its path relative to DOCS_ROOT with its
\* content.
walkDir(dir, relative) ==
  Concat([e \in 1..Len(dir.entries) |->
            IF dir.entries[e].kind = "dir"
            THEN walkDir(dir.entries[e], relative \o <<EntryName(dir.entries[e])>>)
            ELSE IF dir.entries[e].kind = "file" /\ dir.entries[e].ext = ".mdx"
              THEN <<[file |-> relative \o <<EntryName(dir.entries[e])>>,
                      content |-> dir.entries[e].content]>>
            ELSE <<>>])

\* findAllMdxFiles()
findAllMdxFiles ==
  Concat([f \in 1..Len(MDX_ROOT_FOLDERS) |->
            IF ~existsSync(DOCS_ROOT \o <<MDX_ROOT_FOLDERS[f]>>) THEN <<>>
            ELSE walkDir(NodeAt(site, DOCS_ROOT \o <<MDX_ROOT_FOLDERS[f]>>, 1).node,
                         <<MDX_ROOT_FOLDERS[f]>>)])

\* The first pieces that make url.startsWith('http') or
\* url.startsWith('mailto:') true.
ExternalStarts == {"http://", "https://", "http-api", "mailto:"}

\* extractLinks(content): pattern by pattern, the URLs matched, those that
\* start with http or mailto: and the URL # aside.
extractLinks(content) ==
  Concat([p \in 1..Len(LINK_PATTERNS) |->
            LET matches == SelectSeq(content, LAMBDA m : m.syntax = LINK_PATTERNS[p])
                kept == SelectSeq(matches,
                                  LAMBDA m : m.url[1] \notin ExternalStarts /\ m.url # <<"#">>)
            IN [i \in 1..Len(kept) |-> kept[i].url]])

\* link.split('#')[0]
BasePath(link) ==
  IF \A i \in 1..Len(link) : link[i] # "#" THEN link
  ELSE SubSeq(link, 1, (CHOOSE i \in 1..Len(link) :
                          link[i] = "#" /\ \A h \in 1..(i - 1) : link[h] # "#") - 1)

\* targetPath of resolveInternalLink for a link with a base path: a link that
\* starts with ./ or ../ resolved from the directory of the file, which
\* path.resolve takes from the working directory; a link that starts with /
\* without that slash; any other link as it is.
TargetPath(link, fromFile) ==
  LET basePath == BasePath(link)
  IN IF Len(basePath) >= 2 /\ basePath[1] \in {".", ".."} /\ basePath[2] = "/"
     THEN PathString(PathResolve(cwd \o SubSeq(fromFile, 1, Len(fromFile) - 1), basePath))
     ELSE IF basePath[1] = "/" THEN Tail(basePath)
     ELSE basePath

\* The three candidates the mutated resolver tries: no .md file.
possiblePathsNoMd(targetPath) ==
  <<targetPath,
    targetPath \o <<".mdx">>,
    targetPath \o <<"/", "index.mdx">>,
    targetPath \o <<"/", "index.md">>>>

\* possiblePaths of resolveInternalLink; path.join(targetPath, name) is
\* targetPath/name, which path.resolve normalizes.
possiblePaths(targetPath) ==
  <<targetPath,
    targetPath \o <<".mdx">>,
    targetPath \o <<".md">>,
    targetPath \o <<"/", "index.mdx">>,
    targetPath \o <<"/", "index.md">>>>

\* resolveInternalLink(link, fromFile): the first candidate that exists, or
\* null.
resolveInternalLink(link, fromFile) ==
  IF BasePath(link) = <<>> THEN [null |-> TRUE, fullPath |-> <<>>]
  ELSE Let([i \in 1..Len(possiblePaths(TargetPath(link, fromFile))) |->
              PathResolve(DOCS_ROOT, possiblePaths(TargetPath(link, fromFile))[i])],
           LAMBDA fullPaths :
    IF \A i \in 1..Len(fullPaths) : ~existsSync(fullPaths[i])
    THEN [null |-> TRUE, fullPath |-> <<>>]
    ELSE [null |-> FALSE,
          fullPath |-> fullPaths[CHOOSE i \in 1..Len(fullPaths) :
                                   /\ existsSync(fullPaths[i])
                                   /\ \A h \in 1..(i - 1) : ~existsSync(fullPaths[h])]])

\* The error entries validateLinks collects for one file.
FileErrors(file, content) ==
  Let(extractLinks(content), LAMBDA links :
    LET broken == SelectSeq(links, LAMBDA link : resolveInternalLink(link, file).null
                                                 /\ link[1] # "#")
    IN [i \in 1..Len(broken) |->
          [file |-> file, link |-> broken[i], message |-> "Link target not found"]])

\* validateLinks(): the error entries and the exit code.
validateLinks ==
  Let(Concat([f \in 1..Len(findAllMdxFiles) |->
                FileErrors(findAllMdxFiles[f].file, findAllMdxFiles[f].content)]),
      LAMBDA found : [errors |-> found, exit |-> IF found = <<>> THEN 0 ELSE 1])

\* node scripts/sync-openapi.js
RunSyncer ==
  \E r \in {SyncerMain(remote, localSource, targetFile)} :
     /\ targetDir' = TRUE
     /\ targetFile' = r.target
     /\ last' = r.run
     /\ prev' = last
     /\ UNCHANGED <<localSource, remote, linkVars, callVars>>

\* node scripts/check-openapi-drift.js
RunDriftChecker ==
  /\ last' = DriftMain(remote, localSource, targetFile)
  /\ prev' = last
  /\ UNCHANGED <<openApiVars, linkVars, callVars>>

\* node scripts/generate-code-samples.js
RunGenerator ==
  \E r \in {GeneratorMain(targetFile)} :
     /\ targetFile' = IF r.wrote THEN FileOf(r.text) ELSE targetFile
     /\ last' = RunOf("generate", r.exit, r.wrote, IF r.exit = 0 THEN "done" ELSE "error")
     /\ prev' = last
     /\ UNCHANGED <<localSource, remote, targetDir, linkVars, callVars>>

\* getExampleValue(param), called on its own.
CallGetExampleValue ==
  /\ call.fn = "getExampleValue"
  /\ ~ret.done
  /\ ret' = IF IsNullish(call.arg) \/ getExampleValueThrows(call.arg)
            THEN [done |-> TRUE, outcome |-> "throw", value |-> Undefined]
            ELSE [done |-> TRUE, outcome |-> "return", value |-> getExampleValue(call.arg)]
  /\ UNCHANGED <<openApiVars, linkVars, last, prev, call>>

\* generateExampleFromSchema(schema), called on its own.
CallGenerateExampleFromSchema ==
  /\ call.fn = "generateExampleFromSchema"
  /\ ~ret.done
  /\ ret' = IF IsNullish(call.arg) \/ generateExampleFromSchemaThrows(call.arg, 0)
            THEN [done |-> TRUE, outcome |-> "throw", value |-> Undefined]
            ELSE [done |-> TRUE, outcome |-> "return",
                  value |-> generateExampleFromSchema(call.arg, 0)]
  /\ UNCHANGED <<openApiVars, linkVars, last, prev, call>>

\* node scripts/validate-links.js
RunLinkValidator ==
  \E r \in {validateLinks} :
     /\ errors' = r.errors
     /\ last' = RunOf("links", r.exit, FALSE, IF r.exit = 0 THEN "valid" ELSE "broken")
     /\ prev' = last
     /\ UNCHANGED <<openApiVars, site, cwd, callVars>>

Next == RunSyncer \/ RunDriftChecker \/ RunGenerator \/ RunLinkValidator

(***************************************************************************)
(* The documents and texts the runs start from.                            *)
(***************************************************************************)
E(k, v) == [k |-> k, v |-> v]

Str(x) == JStr(<<x>>)

\* One operation of the published API.
ListOp(level) ==
  JObj(<<E("operationId", JStr(<<"l", "i", "s", "t">>)), E("x-access-level", Str(level))>>)

DocPublic ==
  JObj(<<E("openapi", Str("3.0.0")),
         E("paths", JObj(<<E("/widgets", JObj(<<E("get", ListOp("admin"))>>))>>))>>)

\* DocPublic with its top-level keys in the other order.
DocReordered ==
  JObj(<<E("paths", JObj(<<E("/widgets", JObj(<<E("get", ListOp("admin"))>>))>>)),
         E("openapi", Str("3.0.0"))>>)

\* DocPublic with one field value changed.
DocChanged ==
  JObj(<<E("openapi", Str("3.0.0")),
         E("paths", JObj(<<E("/widgets", JObj(<<E("get", ListOp("partner"))>>))>>))>>)

\* A document with a title: two words, and the same words run together.
DocTitled(title) == JObj(<<E("info", JObj(<<E("title", JStr(title))>>))>>)

\* A document whose path item is null, and one whose operation is null.
DocNullItem == JObj(<<E("paths", JObj(<<E("/widgets", JNull)>>))>>)

DocNullOp == JObj(<<E("paths", JObj(<<E("/widgets", JObj(<<E("post", JNull)>>))>>))>>)

\* Response codes written 404 before 200, and 200 before 404.
DocCodes(first, second) ==
  JObj(<<E("paths",
           JObj(<<E("/widgets",
                    JObj(<<E("get",
                             JObj(<<E("responses",
                                      JObj(<<E(first, JObj(<<>>)),
                                             E(second, JObj(<<>>))>>))>>))>>))>>))>>)

SyncDocs ==
  {DocPublic, DocReordered, DocChanged, DocNullItem, DocNullOp,
   DocCodes("404", "200"), DocCodes("200", "404"),
   DocTitled(<<"Widgetic", " ", "API">>), DocTitled(<<"Widgetic", "API">>)}

\* A text cut short: no JSON.
Truncated(text) == SubSeq(text, 1, Len(text) - 1)

\* The texts a source or a target file may hold: each document compact and
\* pretty-printed, the document `null`, and a text that is no JSON.
SyncTexts ==
  {Stringify(d, pretty, 0) : d \in SyncDocs, pretty \in BOOLEAN}
  \cup {<<"null">>, Truncated(Stringify(DocPublic, FALSE, 0))}

SyncFiles == {Absent} \cup {FileOf(t) : t \in SyncTexts}

RemoteTexts == {Stringify(DocPublic, FALSE, 0), Truncated(Stringify(DocPublic, FALSE, 0))}

Remotes ==
  {RemoteOf("ok", t) : t \in RemoteTexts}
  \cup {RemoteOf(kind, <<>>) : kind \in {"http-error", "unreachable", "no-fetch"}}

(***************************************************************************)
(* The content trees the Link Validator runs on.                           *)
(***************************************************************************)
\* The most link occurrences in the page docs/intro.mdx.
MaxLinks == 2

Link(syntax, url) == [syntax |-> syntax, url |-> url]

\* Links to a page, a .md file, a directory, a missing page, a page by its file
\* name, an anchor of this page, pages relative to this one, other sites, and
\* a folder whose name starts with http.
LinkUrls ==
  {<<"/", "docs", "/", "guides", "/", "setup">>,
   <<"/", "docs", "/", "faq">>,
   <<"/", "docs", "/", "topics", "/">>,
   <<"/", "docs", "/", "missing">>,
   <<"docs", "/", "intro", ".mdx">>,
   <<"#", "install">>,
   <<"#">>,
   <<".", "/", "guides", "/", "setup", "#", "install">>,
   <<"..", "/", "api-reference", "/", "widgets">>,
   <<"https://", "example.com">>,
   <<"http-api", "/", "overview">>}

LinkOccurrences ==
  {Link("markdown", url) : url \in LinkUrls}
  \cup {Link("href-double", <<"/", "docs", "/", "missing">>),
        Link("href-single", <<"/", "docs", "/", "guides", "/", "setup">>),
        Link("href-double", <<"mailto:", "docs@widgetic.com">>)}

\* The contents of a page: up to MaxLinks occurrences, one after the other.
RECURSIVE ContentsOf(_)
ContentsOf(n) ==
  IF n = 0 THEN {<<>>}
  ELSE ContentsOf(n - 1)
       \cup {Append(c, o) : c \in {c \in ContentsOf(n - 1) : Len(c) = n - 1},
                             o \in LinkOccurrences}

\* The page docs/guides/setup.mdx links to the page above it and to a page
\* that does not exist.
SetupContent ==
  <<Link("markdown", <<"..", "/", "intro">>), Link("href-double", <<".", "/", "missing">>)>>

\* The file system: the repository with the page docs/intro.mdx of the given
\* content; the guide and the FAQ are there when `full`.
SiteOf(content, full) ==
  Dir("", <<
    Dir("repo", <<
      Dir("docs",
          <<File("intro", ".mdx", content),
            Dir("guides", IF full THEN <<File("setup", ".mdx", SetupContent)>> ELSE <<>>),
            Dir("topics", <<File("index", ".mdx", <<>>)>>)>>
          \o (IF full THEN <<File("faq", ".md", <<>>)>> ELSE <<>>)),
      Dir("api-reference", <<File("widgets", ".mdx", <<>>), File("openapi", ".json", <<>>)>>),
      Dir("scripts", <<File("validate-links", ".js", <<>>)>>),
      File("README", ".md", <<>>)>>)>>)

Sites == {SiteOf(content, full) : content \in ContentsOf(MaxLinks), full \in BOOLEAN}

\* The directories the validator is started in: the repository and scripts/.
WorkingDirs == {DOCS_ROOT, DOCS_ROOT \o <<"scripts">>}

\* The content tree the other tools run beside.
PublishedSite == SiteOf(<<Link("markdown", <<"/", "docs", "/", "missing">>)>>, TRUE)

\* No function of the generator is called on its own.
NoCalls == call = NoCall /\ ret = NoRet

\* The toolchain with the source read from the local file, or fetched.
Init ==
  /\ last = NoRun
  /\ prev = NoRun
  /\ NoCalls
  /\ site = PublishedSite
  /\ cwd = DOCS_ROOT
  /\ errors = <<>>
  /\ \/ /\ remote = NoRemote
        /\ localSource \in SyncFiles
        /\ targetFile \in SyncFiles
     \/ /\ remote \in Remotes
        /\ localSource \in {Absent, FileOf(Stringify(DocChanged, FALSE, 0))}
        /\ targetFile \in {Absent, FileOf(Stringify(DocPublic, FALSE, 0)),
                           FileOf(Stringify(DocChanged, TRUE, 0))}
  /\ targetDir \in BOOLEAN
  /\ (targetFile.exists => targetDir)

Spec == Init /\ [][Next]_vars

\* The Spec Syncer and the Drift Checker alone.
NextSync == RunSyncer \/ RunDriftChecker

SpecSync == Init /\ [][NextSync]_vars

\* A document with an operation beside a null one.
DocMixed ==
  JObj(<<E("openapi", Str("3.0.0")),
         E("paths", JObj(<<E("/widgets",
                             JObj(<<E("post", JNull), E("get", ListOp("admin"))>>))>>))>>)

\* The texts of the source and the target when the three OpenAPI tools run
\* one after the other.
ChainTexts ==
  {Stringify(d, pretty, 0) : d \in {DocPublic, DocChanged, DocMixed}, pretty \in BOOLEAN}

ChainFiles == {Absent} \cup {FileOf(t) : t \in ChainTexts}

\* The Spec Syncer, the Drift Checker and the Code Sample Generator, run in
\* any order on a local or a fetched source.
InitChain ==
  /\ last = NoRun
  /\ prev = NoRun
  /\ NoCalls
  /\ site = PublishedSite
  /\ cwd = DOCS_ROOT
  /\ errors = <<>>
  /\ \/ /\ remote = NoRemote
        /\ localSource \in ChainFiles
     \/ /\ remote \in {RemoteOf("ok", Stringify(DocPublic, FALSE, 0)),
                       RemoteOf("http-error", <<>>)}
        /\ localSource = Absent
  /\ targetFile \in ChainFiles
  /\ targetDir = TRUE

NextChain == RunSyncer \/ RunDriftChecker \/ RunGenerator

SpecChain == InitChain /\ [][NextChain]_vars

(***************************************************************************)
(* The documents a run of the Code Sample Generator starts from: one path  *)
(* item holding operations of every shape the generator tells apart, and   *)
(* the keys of a path item that are no operations.                         *)
(***************************************************************************)
\* The most query parameters an operation declares.
MaxQueryParams == 3

Param(name, where) == JObj(<<E("name", JStr(name)), E("in", Str(where))>>)

\* The i-th query parameter: q1, q2, ...
QueryParam(i) ==
  JObj(<<E("name", JStr(<<"q", ToString(i)>>)), E("in", Str("query")),
         E("schema", JObj(<<E("type", Str("integer"))>>))>>)

QueryParams(n) == [i \in 1..n |-> QueryParam(i)]

OperationId == E("operationId", JStr(<<"l", "i", "s", "t">>))

OpPlain == JObj(<<OperationId>>)

OpTagged == JObj(<<E("tags", JArr(<<Str("Widgets")>>)), OperationId>>)

OpQuery(n) == JObj(<<OperationId, E("parameters", JArr(QueryParams(n)))>>)

OpPathParam == JObj(<<OperationId, E("parameters", JArr(<<Param(<<"i", "d">>, "path")>>))>>)

OpOldSamples == JObj(<<OperationId, E("x-code-samples", JArr(<<>>))>>)

\* An operation with a JSON request body of the given schema.
OpBody(schema) ==
  JObj(<<OperationId,
         E("requestBody",
           JObj(<<E("content",
                    JObj(<<E("application/json", JObj(<<E("schema", schema)>>))>>))>>))>>)

\* The schema of a widget: one required property and three optional ones.
WidgetSchema ==
  JObj(<<E("type", Str("object")),
         E("required", JArr(<<Str("name")>>)),
         E("properties",
           JObj(<<E("name", JObj(<<E("type", Str("string"))>>)),
                  E("color", JObj(<<E("type", Str("string"))>>)),
                  E("size", JObj(<<E("type", Str("string"))>>)),
                  E("weight", JObj(<<E("type", Str("integer"))>>))>>))>>)

\* Schemas of unexpected shape: an array whose items is a string, and an
\* object whose required is a number.
OddItemsSchema == JObj(<<E("type", Str("array")), E("items", Str("widget"))>>)

OddRequiredSchema == JObj(<<E("type", Str("object")), E("required", JNum(1))>>)

\* Operations with a malformed node: a path parameter without a name, a null
\* parameter, and a parameters that is no list.
OpNamelessParam == JObj(<<E("parameters", JArr(<<JObj(<<E("in", Str("path"))>>)>>))>>)

OpNullParam == JObj(<<E("parameters", JArr(<<JNull>>))>>)

OpParamsNoList == JObj(<<E("parameters", JNum(1))>>)

WellFormedOps ==
  {OpPlain, OpTagged, OpPathParam, OpOldSamples, OpBody(WidgetSchema)}
  \cup {OpQuery(n) : n \in 1..MaxQueryParams}

MalformedOps ==
  {JNull, OpNamelessParam, OpNullParam, OpParamsNoList,
   OpBody(OddItemsSchema), OpBody(OddRequiredSchema)}

MethodKeys == {"get", "GET", "post", "delete"}

\* The value of a path item's `servers`.
Servers == JArr(<<JObj(<<E("url", Str("https://eu.widgetic.com"))>>)>>)

\* The entries of a path item: one operation alone, an operation beside the
\* item's summary, servers or shared parameters, and two operations.
GenItems ==
  {<<E(m, op)>> : m \in MethodKeys, op \in WellFormedOps \cup MalformedOps}
  \cup {<<E("summary", Str("Widgets")), E(m, op)>> :
          m \in {"get", "post"}, op \in {OpPlain, OpQuery(1), JNull}}
  \cup {<<E("servers", Servers), E("get", OpPlain)>>}
  \cup {<<E("parameters", JArr(<<Param(<<"i", "d">>, "path")>>)), E(m, OpPlain)>> :
          m \in {"get", "delete"}}
  \cup {<<E("parameters", JArr(QueryParams(1))), E(m, OpQuery(1))>> : m \in {"get", "GET"}}
  \cup {<<E("get", OpPlain), E("post", op)>> : op \in {OpTagged, JNull, OpNamelessParam}}
  \cup {<<E("post", JNull), E("get", OpPlain)>>}

GenPaths == {"/widgets", "/widgets/{id}"}

GenDoc(path, item) ==
  JObj(<<E("openapi", Str("3.0.0")), E("paths", JObj(<<E(path, JObj(item))>>))>>)

\* A document without paths.
DocNoPaths == JObj(<<E("openapi", Str("3.0.0"))>>)

GenDocs ==
  {GenDoc(path, item) : path \in GenPaths, item \in GenItems}
  \cup {DocNoPaths, DocNullItem}

GenTexts ==
  {Stringify(d, TRUE, 0) : d \in GenDocs}
  \cup {<<"null">>, Truncated(Stringify(DocPublic, TRUE, 0))}

GenFiles == {Absent} \cup {FileOf(t) : t \in GenTexts}

\* The Code Sample Generator alone, run on the published document.
InitGen ==
  /\ last = NoRun
  /\ prev = NoRun
  /\ remote = NoRemote
  /\ localSource = Absent
  /\ targetDir = TRUE
  /\ targetFile \in GenFiles
  /\ NoCalls
  /\ site = PublishedSite
  /\ cwd = DOCS_ROOT
  /\ errors = <<>>

NextGen == RunGenerator

SpecGen == InitGen /\ [][NextGen]_vars

\* The OpenAPI files as published, for the runs that do not read them.
Published ==
  /\ remote = NoRemote
  /\ localSource = FileOf(Stringify(DocPublic, TRUE, 0))
  /\ targetDir = TRUE
  /\ targetFile = FileOf(Stringify(DocPublic, TRUE, 0))

\* The Link Validator alone, on every content tree.
InitLinks ==
  /\ last = NoRun
  /\ prev = NoRun
  /\ Published
  /\ NoCalls
  /\ site \in Sites
  /\ cwd \in WorkingDirs
  /\ errors = <<>>

NextLinks == RunLinkValidator

SpecLinks == InitLinks /\ [][NextLinks]_vars

(***************************************************************************)
(* The parameters getExampleValue is called on.                            *)
(***************************************************************************)
UserId == <<"u", "s", "e", "r", "I", "d">>

TableName == <<"t", "a", "b", "l", "e", "N", "a", "m", "e">>

ParamNames ==
  {UserId, TableName, <<"i", "d">>, <<"l", "i", "m", "i", "t">>,
   <<"f", "e", "a", "t", "u", "r", "e", "K", "e", "y">>, <<"W", "I", "D", "T", "H">>}

\* The name of a parameter, or none.
NameEntries == {<<>>} \cup {<<E("name", JStr(name))>> : name \in ParamNames}

\* The schema of a parameter: none, one without a type, one of each type, and
\* one with an example.
SchemaEntries ==
  {<<>>, <<E("schema", JObj(<<>>))>>}
  \cup {<<E("schema", JObj(<<E("type", Str(type))>>))>> :
          type \in {"integer", "number", "boolean", "string"}}
  \cup {<<E("schema", JObj(<<E("type", Str("integer")), E("example", JNum(MaxNum))>>))>>}

\* The example of a parameter: none, a string, and the number 0.
ExampleEntries == {<<>>, <<E("example", Str("widget-1"))>>, <<E("example", JNum(0))>>}

ParamInputs ==
  {JObj(name \o <<E("in", Str("path"))>> \o schema \o example) :
     name \in NameEntries, schema \in SchemaEntries, example \in ExampleEntries}

InitParam ==
  /\ last = NoRun
  /\ prev = NoRun
  /\ Published
  /\ site = PublishedSite
  /\ cwd = DOCS_ROOT
  /\ errors = <<>>
  /\ call \in {[fn |-> "getExampleValue", arg |-> param] : param \in ParamInputs}
  /\ ret = NoRet

NextParam == CallGetExampleValue

SpecParam == InitParam /\ [][NextParam]_vars

(***************************************************************************)
(* The schemas generateExampleFromSchema is called on.                     *)
(***************************************************************************)
\* The most properties an object schema declares.
MaxProps == 6

\* The i-th property of a widget.
PropName(i) ==
  CASE i = 1 -> "name" [] i = 2 -> "color" [] i = 3 -> "size" [] i = 4 -> "weight"
    [] OTHER -> "extra" \o ToString(i)

PropSchema(i) == JObj(<<E("type", Str(IF i = 4 THEN "integer" ELSE "string"))>>)

\* The first m properties, in declared order.
Properties(m) == JObj([i \in 1..m |-> E(PropName(i), PropSchema(i))])

\* The required lists: none, the first r properties, one property, a name
\* that no property has before a declared one, and two names in the order
\* opposite to the declared one.
RequiredLists ==
  {[i \in 1..r |-> Str(PropName(i))] : r \in 0..MaxProps}
  \cup {<<Str(PropName(4))>>, <<Str("missing"), Str(PropName(1))>>,
        <<Str(PropName(3)), Str(PropName(1))>>}

ObjectSchema(required, m) ==
  JObj(<<E("type", Str("object")), E("required", JArr(required)),
         E("properties", Properties(m))>>)

\* The integer and number schemas: without a minimum, and with a minimum below
\* zero, of zero and above zero.
NumericSchemas ==
  {JObj(<<E("type", Str(type))>>) : type \in {"integer", "number"}}
  \cup {JObj(<<E("type", Str(type)), E("minimum", JNum(minimum))>>) :
          type \in {"integer", "number"}, minimum \in {0 - MaxNum, 0 - 1, 0, 1, 2}}

SchemaInputs ==
  {ObjectSchema(required, m) : required \in RequiredLists, m \in 0..MaxProps}
  \cup {JObj(<<E("properties", Properties(m))>>) : m \in 0..MaxProps}
  \cup {JObj(<<E("type", Str("object")),
               E("properties", JObj(<<E("name", JNull), E("color", PropSchema(2))>>))>>),
        JObj(<<E("type", Str("object")), E("example", JObj(<<E("name", Str("Dial"))>>)),
               E("properties", Properties(1))>>),
        JObj(<<E("type", Str("array")), E("items", ObjectSchema(<<>>, 3))>>),
        OddItemsSchema, OddRequiredSchema,
        JObj(<<E("type", Str("string")), E("format", Str("uuid"))>>),
        JObj(<<E("type", Str("integer")), E("minimum", JNum(MaxNum))>>)}
  \cup NumericSchemas

InitSchema ==
  /\ last = NoRun
  /\ prev = NoRun
  /\ Published
  /\ site = PublishedSite
  /\ cwd = DOCS_ROOT
  /\ errors = <<>>
  /\ call \in {[fn |-> "generateExampleFromSchema", arg |-> schema] : schema \in SchemaInputs}
  /\ ret = NoRet

NextSchema == CallGenerateExampleFromSchema

SpecSchema == InitSchema /\ [][NextSchema]_vars

(***************************************************************************)
(* Notions the properties are stated with.                                 *)
(***************************************************************************)
\* A JSON text without the white space between its tokens: two texts with the
\* same StripWs differ in white space and pretty-printing only.
StripWs(text) ==
  Let(Lex(text), LAMBDA L :
    Let(SelectSeq([i \in 1..Len(L.txt) |-> i], LAMBDA i : ~IsGap(L, i)),
        LAMBDA kept : [k \in 1..Len(kept) |-> L.txt[kept[k]]]))

RECURSIVE SameContent(_, _)
\* Two values with the same structural content: objects with the same keys,
\* in any order, holding the same content; arrays with the same content
\* element by element; equal primitives.
SameContent(a, b) ==
  IF a.t # b.t THEN FALSE
  ELSE CASE a.t = "obj" ->
              /\ {a.e[i].k : i \in 1..Len(a.e)} = {b.e[i].k : i \in 1..Len(b.e)}
              /\ \A i \in 1..Len(a.e) : SameContent(a.e[i].v, Get(b, a.e[i].k))
         [] a.t = "arr" ->
              /\ Len(a.a) = Len(b.a)
              /\ \A i \in 1..Len(a.a) : SameContent(a.a[i], b.a[i])
         [] OTHER -> a = b

\* The source as the tools see it: the response body when OPENAPI_SOURCE_URL is
\* set, the local file otherwise.
SourceReadable == IF remote.set THEN remote.kind = "ok" ELSE localSource.exists

SourceText == IF remote.set THEN remote.body ELSE localSource.text

\* Both sides are readable and hold JSON documents.
BothDocuments ==
  /\ SourceReadable
  /\ targetFile.exists
  /\ JsonParse(SourceText).ok
  /\ JsonParse(targetFile.text).ok

(***************************************************************************)
(* C1.  The samples every operation carries after a generator run.         *)
(***************************************************************************)
\* The entries of the path items of the document in the target file, each with
\* the path item it is an entry of.
PathItemEntries ==
  LET paths == ObjectEntries(Get(JsonParse(targetFile.text).v, "paths"))
  IN UNION {{[item |-> paths[i].v, k |-> ObjectEntries(paths[i].v)[j].k,
              v |-> ObjectEntries(paths[i].v)[j].v] :
               j \in 1..Len(ObjectEntries(paths[i].v))} : i \in 1..Len(paths)}

SampleLangs == <<"curl", "javascript", "python", "go", "ruby", "php", "java", "csharp">>

SampleLabels == <<"cURL", "Node.js", "Python", "Go", "Ruby", "PHP", "Java", "C#">>

\* The value carries an x-codeSamples array of the 8 samples in their order.
CarriesSamples(v) ==
  LET samples == IF IsNullish(v) THEN Undefined ELSE Get(v, "x-codeSamples")
  IN /\ samples.t = "arr"
     /\ Len(samples.a) = Len(SampleLangs)
     /\ \A n \in 1..Len(SampleLangs) :
          /\ Get(samples.a[n], "lang") = Str(SampleLangs[n])
          /\ Get(samples.a[n], "label") = Str(SampleLabels[n])
          /\ Get(samples.a[n], "source").t = "str"

\* The last run was a Code Sample Generator run that succeeded.
Generated == last.tool = "generate" /\ last.exit = 0

\* C1 as stated: after a successful generator run the value under every key of
\* every path item, the key `parameters` aside, carries the 8 samples.
C1_EveryKeyCarriesSamples ==
  Generated => \A x \in PathItemEntries : x.k # "parameters" => CarriesSamples(x.v)

\* C1, amended: after a successful generator run every value of a path item
\* that is a JSON object, under any key but `parameters`, carries the 8
\* samples in the order cURL, Node.js, Python, Go, Ruby, PHP, Java, C#, and
\* no longer the key x-code-samples.
C1_EveryOperationCarriesSamples ==
  Generated =>
    \A x \in PathItemEntries :
      (x.k # "parameters" /\ x.v.t = "obj")
        => (CarriesSamples(x.v) /\ Get(x.v, "x-code-samples") = Undefined)

\* A successful run on a path item with a summary beside its operation: the
\* operation carries the samples, the summary is the string it was.
C1_Witness ==
  /\ Generated
  /\ \E x \in PathItemEntries : x.k = "summary" /\ x.v.t = "str"
  /\ \E x \in PathItemEntries : x.k = "get" /\ CarriesSamples(x.v)

(***************************************************************************)
(* C2.  Drift Checker normalization.                                       *)
(***************************************************************************)
\* C2 as stated: whenever the source and the target hold documents with the
\* same structural content, whatever their key order and white space,
\* normalizeJson yields identical strings for them.
C2_KeyOrderInsensitive ==
  (BothDocuments /\ SameContent(JsonParse(SourceText).v, JsonParse(targetFile.text).v))
    => normalizeJson(SourceText) = normalizeJson(targetFile.text)

\* C2 amended: normalizeJson yields identical strings for two documents exactly
\* when they parse to the same value, keys in the same order; so it does for
\* texts that differ in white space only, and it does not for documents that
\* differ in key order; and normalizing a normalized text yields it unchanged.
C2_WhitespaceInsensitive ==
  BothDocuments =>
    /\ (normalizeJson(SourceText) = normalizeJson(targetFile.text))
         <=> (JsonParse(SourceText).v = JsonParse(targetFile.text).v)
    /\ (StripWs(SourceText) = StripWs(targetFile.text))
         => (normalizeJson(SourceText) = normalizeJson(targetFile.text))
    /\ normalizeJson(normalizeJson(SourceText).text) = normalizeJson(SourceText)
    /\ normalizeJson(normalizeJson(targetFile.text).text) = normalizeJson(targetFile.text)

\* The Drift Checker has compared two texts that differ in white space only and
\* found them in sync.
C2_Witness ==
  /\ last.tool = "drift"
  /\ BothDocuments
  /\ SourceText # targetFile.text
  /\ StripWs(SourceText) = StripWs(targetFile.text)
  /\ last.report = "in-sync"

C4_SyncerIdempotent ==
  (/\ prev.tool = "sync"
   /\ last.tool = "sync"
   /\ SourceReadable
   /\ JsonParse(SourceText).ok
   /\ JsonParse(SourceText).v.t = "obj")
    => /\ ~last.wrote
       /\ targetFile = FileOf(SourceText)
       /\ prev.exit = 0
       /\ last.exit = 0

(***************************************************************************)
(* C5.  The Link Validator's verdict.                                      *)
(***************************************************************************)
\* The link occurrences the validator extracts, file by file, in its order.
Occurrences ==
  Concat([f \in 1..Len(findAllMdxFiles) |->
            [i \in 1..Len(extractLinks(findAllMdxFiles[f].content)) |->
               [file |-> findAllMdxFiles[f].file,
                link |-> extractLinks(findAllMdxFiles[f].content)[i]]]])

\* What the five candidates add to the path of the link: nothing, .mdx, .md,
\* /index.mdx and /index.md.
CandidateEndings == {<<>>, <<".mdx">>, <<".md">>, <<"/", "index.mdx">>, <<"/", "index.md">>}

\* A link that is an anchor of the page it is in.
AnchorOnly(link) == BasePath(link) = <<>>

\* The occurrence is of a link that is no anchor of its page and has no
\* candidate on disk.
Broken(o) ==
  /\ ~AnchorOnly(o.link)
  /\ \A ending \in CandidateEndings :
       ~existsSync(PathResolve(DOCS_ROOT, TargetPath(o.link, o.file) \o ending))

\* C5: after a Link Validator run the error entries are, one for one and in
\* order, the extracted link occurrences that are not anchor-only and have
\* none of their five candidate paths on disk, and the exit code is 1 when
\* there is such an entry and 0 when there is none.
C5_LinkVerdict ==
  last.tool = "links" =>
    /\ [i \in 1..Len(errors) |-> [file |-> errors[i].file, link |-> errors[i].link]]
         = SelectSeq(Occurrences, Broken)
    /\ last.exit = IF errors = <<>> THEN 0 ELSE 1

\* A run that found a link with no candidate on disk and passed a link that
\* only its .md candidate resolves, and an anchor of the page.
C5_Witness ==
  /\ last.tool = "links"
  /\ last.exit = 1
  /\ \E i \in 1..Len(errors) : errors[i].link = <<"/", "docs", "/", "missing">>
  /\ \E i \in 1..Len(Occurrences) :
       /\ Occurrences[i].link \in {<<"/", "docs", "/", "faq">>, <<"#", "install">>}
       /\ ~Broken(Occurrences[i])

(***************************************************************************)
(* C6.  The example value of a parameter.                                  *)
(***************************************************************************)
\* The call of fn has returned or thrown.
Called(fn) == call.fn = fn /\ ret.done

Returned(value) == ret.outcome = "return" /\ ret.value = value

\* The parameter has no example, on itself or on its schema.
HasNoExample(param) ==
  /\ Get(param, "example") = Undefined
  /\ GetOpt(Get(param, "schema"), "example") = Undefined

SchemaType(param) == GetOpt(Get(param, "schema"), "type")

\* The parameter's name, in lower case, has id, table or feature in it.
NameHasKeyword(param) ==
  \E word \in {<<"i", "d">>, <<"t", "a", "b", "l", "e">>,
               <<"f", "e", "a", "t", "u", "r", "e">>} :
    Includes(toLowerCase(Get(param, "name").s), word)

\* C6 as stated: without an example, a parameter named userId with no schema
\* type gives "example", one named tableName gives "my_table", and one of type
\* integer gives "1".
C6_ExampleValueAsStated ==
  (/\ Called("getExampleValue")
   /\ HasNoExample(call.arg)
   /\ Get(call.arg, "name").t = "str") =>
    /\ (Get(call.arg, "name") = JStr(UserId) /\ SchemaType(call.arg) = Undefined)
         => Returned(Str("example"))
    /\ Get(call.arg, "name") = JStr(TableName) => Returned(Str("my_table"))
    /\ SchemaType(call.arg) = Str("integer") => Returned(Str("1"))

\* C6, amended: without an example, a parameter named userId gives
\* "example-uuid-123" (its name in lower case has id in it), one named
\* tableName gives "my_table", and a parameter whose name in lower case has
\* none of id, table and feature in it gives "1" when its type is integer
\* and "example" when its schema has no type.
C6_ExampleValue ==
  (Called("getExampleValue") /\ HasNoExample(call.arg)) =>
    /\ Get(call.arg, "name") = JStr(UserId) => Returned(Str("example-uuid-123"))
    /\ Get(call.arg, "name") = JStr(TableName) => Returned(Str("my_table"))
    /\ (Get(call.arg, "name").t = "str" /\ ~NameHasKeyword(call.arg)) =>
         /\ SchemaType(call.arg) = Str("integer") => Returned(Str("1"))
         /\ SchemaType(call.arg) = Undefined => Returned(Str("example"))

\* getExampleValue has been called on a parameter named userId, without an
\* example or a schema, and gave "example-uuid-123".
C6_Witness ==
  /\ Called("getExampleValue")
  /\ Get(call.arg, "name") = JStr(UserId)
  /\ HasNoExample(call.arg)
  /\ Get(call.arg, "schema") = Undefined
  /\ Returned(Str("example-uuid-123"))

(***************************************************************************)
(* C7.  The generator's failure policy.                                    *)
(***************************************************************************)
\* C7 as stated: a generator run on a document that parses as JSON and has a
\* paths mapping exits with code 0 and writes the document back.  (A run that
\* writes nothing leaves in the target file the document it read.)
C7_NeverAborts ==
  (/\ last.tool = "generate"
   /\ targetFile.exists
   /\ JsonParse(targetFile.text).ok
   /\ Get(JsonParse(targetFile.text).v, "paths").t = "obj")
    => (last.exit = 0 /\ last.wrote)

(***************************************************************************)
(* C8.  The example object of an object schema.                            *)
(***************************************************************************)
\* An object schema without an example, its required a list of names.
ObjectSchemaNoExample(schema) ==
  /\ schema.t = "obj"
  /\ Get(schema, "example") = Undefined
  /\ Get(schema, "type") = Str("object") \/ Get(schema, "properties").t = "obj"
  /\ Get(schema, "required").t \in {"undefined", "arr"}

\* The first n of a sequence.
FirstOf(seq, n) == SubSeq(seq, 1, IF Len(seq) < n THEN Len(seq) ELSE n)

\* The names the schema requires, and the properties it declares.
RequiredOf(schema) ==
  IF Get(schema, "required") = Undefined THEN <<>>
  ELSE [i \in 1..Len(Get(schema, "required").a) |-> Flatten(Get(schema, "required").a[i].s)]

PropertiesOf(schema) ==
  IF Get(schema, "properties") = Undefined THEN JObj(<<>>) ELSE Get(schema, "properties")

\* The declared properties that are not required, in declared order.
OptionalOf(schema) ==
  SelectSeq(ObjectKeys(PropertiesOf(schema)),
            LAMBDA k : \A i \in 1..Len(RequiredOf(schema)) : RequiredOf(schema)[i] # k)

\* The property is declared with a schema.
DeclaredIn(schema, k) == Truthy(Get(PropertiesOf(schema), k))

KeySet(object) == {ObjectKeys(object)[i] : i \in 1..Len(ObjectKeys(object))}

Elements(seq) == {seq[i] : i \in 1..Len(seq)}

\* C8 as stated: the example of an object schema without an example has every
\* required property that is declared, of the other properties none but the
\* first 2 declared, and 4 keys at most; for the widget schema it has name,
\* color and size.
C8_ObjectExampleAsStated ==
  (Called("generateExampleFromSchema") /\ ObjectSchemaNoExample(call.arg)) =>
    /\ ret.outcome = "return"
    /\ \A k \in Elements(RequiredOf(call.arg)) :
         DeclaredIn(call.arg, k) => k \in KeySet(ret.value)
    /\ KeySet(ret.value) \ Elements(RequiredOf(call.arg))
         \subseteq Elements(FirstOf(OptionalOf(call.arg), 2))
    /\ Cardinality(KeySet(ret.value)) <= 4
    /\ call.arg = WidgetSchema => KeySet(ret.value) = {"name", "color", "size"}

\* C8, amended: the keys of the example of an object schema without an
\* example are those of the first 4 names of the list `required, then the
\* first 2 declared properties that are not required` that are declared with
\* a schema: 4 keys at most; every declared required property and those 2
\* optional ones when at most 2 names are required; for the widget schema
\* name, color and size, in that order.
C8_ObjectExample ==
  (Called("generateExampleFromSchema") /\ ObjectSchemaNoExample(call.arg)) =>
    /\ ret.outcome = "return"
    /\ KeySet(ret.value)
         = {k \in Elements(FirstOf(RequiredOf(call.arg) \o FirstOf(OptionalOf(call.arg), 2), 4)) :
              DeclaredIn(call.arg, k)}
    /\ Cardinality(KeySet(ret.value)) <= 4
    /\ Len(RequiredOf(call.arg)) <= 2 =>
         \A k \in Elements(RequiredOf(call.arg)) \cup Elements(FirstOf(OptionalOf(call.arg), 2)) :
           DeclaredIn(call.arg, k) => k \in KeySet(ret.value)
    /\ call.arg = WidgetSchema => ObjectKeys(ret.value) = <<"name", "color", "size">>

\* generateExampleFromSchema has been called on the widget schema and gave an
\* object with the keys name, color and size.
C8_Witness ==
  /\ Called("generateExampleFromSchema")
  /\ call.arg = WidgetSchema
  /\ ret.outcome = "return"
  /\ ObjectKeys(ret.value) = <<"name", "color", "size">>

(***************************************************************************)
(* C9.  The query string of the cURL sample.                               *)
(***************************************************************************)
\* The URL of a cURL sample: what stands between the quotes after the method.
CurlUrl(source) ==
  LET open == CHOOSE i \in 1..Len(source) : source[i] = " '"
      close == CHOOSE j \in (open + 1)..Len(source) :
                 source[j] = "' \\\n" /\ \A h \in (open + 1)..(j - 1) : source[h] # "' \\\n"
  IN SubSeq(source, open + 1, close - 1)

\* The query string of a URL, its question mark aside; none when it has no
\* question mark.
QueryOf(url) ==
  IF \A i \in 1..Len(url) : url[i] # "?" THEN <<>>
  ELSE SubSeq(url, 1 + (CHOOSE i \in 1..Len(url) :
                          url[i] = "?" /\ \A h \in 1..(i - 1) : url[h] # "?"),
              Len(url))

\* Where a piece stands in a query string.
PlacesOf(q, piece) == SelectSeq([i \in 1..Len(q) |-> i], LAMBDA i : q[i] = piece)

\* The names of the name=value pairs of a query string, in order.
PairNames(q) ==
  LET starts == <<0>> \o PlacesOf(q, "&")
      equals == PlacesOf(q, "=")
  IN [j \in 1..Len(equals) |->
        IF j <= Len(starts) THEN SubSeq(q, starts[j] + 1, equals[j] - 1) ELSE <<>>]

\* The names of the query parameters of an operation of a path item.
QueryNames(item, operation) ==
  LET queryParams == ParamsIn(AllParams(item, operation), "query")
  IN [i \in 1..Len(queryParams) |-> Get(queryParams[i], "name").s]

\* C9 as stated: after a successful generator run, the URL of the cURL sample
\* of a get operation with n >= 1 query parameters ends with a query string of
\* min(n, 2) name=value pairs, those of its first query parameters in order,
\* joined with &; the URL of any other operation has no query string.
C9_QueryString ==
  Generated =>
    \A x \in PathItemEntries :
      (x.k # "parameters" /\ x.v.t = "obj") =>
        LET names == QueryNames(x.item, x.v)
            shown == IF Len(names) < 2 THEN Len(names) ELSE 2
            query == QueryOf(CurlUrl(Get(Get(Get(x.v, "x-codeSamples"), "0"), "source").s))
        IN IF x.k \in {"get", "GET"}
           THEN Len(names) >= 1 =>
                  /\ PairNames(query) = SubSeq(names, 1, shown)
                  /\ Len(PlacesOf(query, "&")) = shown - 1
           ELSE query = <<>>

(***************************************************************************)
(* C10.  The Spec Syncer's summary and the exit code.                      *)
(***************************************************************************)
\* C10 as stated: a Spec Syncer run that has written the target file exits
\* with code 0, whatever the summary meets in `paths`.
C10_SummaryInformational ==
  (last.tool = "sync" /\ last.wrote) => last.exit = 0

(***************************************************************************)
(* C11.  The base a link is resolved against.                              *)
(***************************************************************************)
\* The link starts with ./ or ../, or with /.
RelativeLink(link) == Len(link) >= 2 /\ link[1] \in {".", ".."} /\ link[2] = "/"

RootLink(link) == link[1] = "/"

\* Where the link of the occurrence points by its own words: a relative link
\* from the directory of the file it is in, inside the documentation root; a
\* link with a leading slash from the documentation root.
PointsAt(o) ==
  IF RelativeLink(o.link)
  THEN PathResolve(DOCS_ROOT \o SubSeq(o.file, 1, Len(o.file) - 1), BasePath(o.link))
  ELSE PathResolve(DOCS_ROOT, Tail(BasePath(o.link)))

\* None of the five candidates exists where the link points.
MissingAtBase(o) ==
  \A ending \in CandidateEndings :
    ~existsSync(PathResolve(<<>>, PathString(PointsAt(o)) \o ending))

BaseLink(o) == RelativeLink(o.link) \/ RootLink(o.link)

\* C11 as stated: after a Link Validator run, started in whatever directory,
\* the error entries of the links that start with ./, ../ or / are, one for
\* one and in order, the occurrences of such links with none of the
\* candidates on disk at the place the link points at: for a relative link
\* below the directory of the file it is in, for a link with a leading slash
\* below the documentation root.
C11_ResolutionBase ==
  last.tool = "links" =>
    SelectSeq([i \in 1..Len(errors) |-> [file |-> errors[i].file, link |-> errors[i].link]],
              BaseLink)
      = SelectSeq(Occurrences, LAMBDA o : BaseLink(o) /\ MissingAtBase(o))

\* The validator, started in scripts/, has reported the link
\* ../api-reference/widgets of docs/intro.mdx, whose page exists.
C11_Witness ==
  /\ last.tool = "links"
  /\ cwd = DOCS_ROOT \o <<"scripts">>
  /\ existsSync(DOCS_ROOT \o <<"api-reference", "widgets.mdx">>)
  /\ \E i \in 1..Len(errors) :
       /\ errors[i].file = <<"docs", "intro.mdx">>
       /\ errors[i].link = <<"..", "/", "api-reference", "/", "widgets">>


(***************************************************************************)
(* C12.  The links that are not checked.                                   *)
(***************************************************************************)
\* The candidate links of the content files: every match of the three
\* patterns, file by file and pattern by pattern.
Candidates ==
  Concat([f \in 1..Len(findAllMdxFiles) |->
            Concat([p \in 1..Len(LINK_PATTERNS) |->
                      LET matches == SelectSeq(findAllMdxFiles[f].content,
                                               LAMBDA m : m.syntax = LINK_PATTERNS[p])
                      IN [i \in 1..Len(matches) |->
                            [file |-> findAllMdxFiles[f].file, link |-> matches[i].url]]])])

\* A link with a scheme before it, a mail link, an anchor of the page.
External(link) == link[1] \in {"http://", "https://"}

MailLink(link) == link[1] = "mailto:"

SamePageAnchor(link) == link[1] = "#"

Internal(link) == ~External(link) /\ ~MailLink(link) /\ ~SamePageAnchor(link)

\* C12 as stated: after a Link Validator run the error entries are, one for
\* one and in order, the candidate links that are internal (not external, no
\* mail link, no anchor of the page) and have no candidate path on disk: no
\* internal link goes unchecked, and no other link is reported.
C12_LinkFiltering ==
  last.tool = "links" =>
    [i \in 1..Len(errors) |-> [file |-> errors[i].file, link |-> errors[i].link]]
      = SelectSeq(Candidates, LAMBDA o : Internal(o.link) /\ Broken(o))

\* The validator has passed the page docs/intro.mdx although its link
\* http-api/overview has no target on disk.
C12_Witness ==
  /\ last.tool = "links"
  /\ \E i \in 1..Len(Candidates) :
       /\ Candidates[i].link = <<"http-api", "/", "overview">>
       /\ Broken(Candidates[i])
  /\ \A i \in 1..Len(errors) : errors[i].link # <<"http-api", "/", "overview">>


(***************************************************************************)
(* C13.  The example of an integer or number schema.                       *)
(***************************************************************************)
\* An integer or number schema without an example.
NumericSchemaNoExample(schema) ==
  /\ schema.t = "obj"
  /\ Get(schema, "example") = Undefined
  /\ Get(schema, "properties") = Undefined
  /\ Get(schema, "type") \in {Str("integer"), Str("number")}

\* C13 as stated: the example of an integer or number schema without an
\* example is its minimum when it declares one, zero and the numbers below
\* zero included, and 1 when it declares none.
C13_NumericExample ==
  (Called("generateExampleFromSchema") /\ NumericSchemaNoExample(call.arg)) =>
    Returned(IF Get(call.arg, "minimum").t = "num" THEN Get(call.arg, "minimum")
             ELSE JNum(1))

\* generateExampleFromSchema has been called on an integer schema with the
\* minimum 0 and gave 1.
C13_Witness ==
  /\ Called("generateExampleFromSchema")
  /\ NumericSchemaNoExample(call.arg)
  /\ Get(call.arg, "minimum") = JNum(0)
  /\ Returned(JNum(1))


(***************************************************************************)
(* C14.  The Drift Checker after the Spec Syncer.                          *)
(***************************************************************************)
\* C14: a Drift Checker run that follows a Spec Syncer run with exit code 0,
\* the source the same for both, reports "in sync" and exits with code 0.
C14_SyncThenCheck ==
  (prev.tool = "sync" /\ prev.exit = 0 /\ last.tool = "drift")
    => (last.report = "in-sync" /\ last.exit = 0)

\* The Spec Syncer has written the target file from a source it differed
\* from, and the Drift Checker run after it found the two in sync.
C14_Witness ==
  /\ prev.tool = "sync"
  /\ prev.exit = 0
  /\ prev.wrote
  /\ last.tool = "drift"
  /\ last.report = "in-sync"
  /\ last.exit = 0
  /\ targetFile = FileOf(SourceText)


(***************************************************************************)
(* C15.  The Drift Checker after the Code Sample Generator.                *)
(***************************************************************************)
\* The operations of a document: the object values of its path items' keys
\* other than `parameters`.
OperationsOf(doc) ==
  Let(ObjectEntries(GetOpt(doc, "paths")), LAMBDA paths :
    UNION {Let(ObjectEntries(paths[i].v), LAMBDA entries :
                 {entries[j].v : j \in {j \in 1..Len(entries) :
                                          /\ entries[j].k # "parameters"
                                          /\ entries[j].v.t = "obj"}}) :
             i \in 1..Len(paths)})

\* The operations of the document a text holds, when it holds one.
OperationsIn(text) ==
  Let(JsonParse(text), LAMBDA parsed :
    IF parsed.ok THEN [ok |-> TRUE, operations |-> OperationsOf(parsed.v)]
    ELSE [ok |-> FALSE, operations |-> {}])

HasSamples(operation) == Get(operation, "x-codeSamples") # Undefined

\* The source is a document with an operation and no x-codeSamples.
CleanSource ==
  /\ SourceReadable
  /\ Let(OperationsIn(SourceText), LAMBDA d :
       /\ d.ok
       /\ d.operations # {}
       /\ \A operation \in d.operations : ~HasSamples(operation))

\* What a Drift Checker run would give now.
DriftNow == DriftMain(remote, localSource, targetFile)

\* The file holds generated samples that the source has not.
SamplesIn(file) ==
  /\ CleanSource
  /\ file.exists
  /\ Let(OperationsIn(file.text), LAMBDA d :
       d.ok /\ \E operation \in d.operations : HasSamples(operation))

SamplesInTarget == SamplesIn(targetFile)

\* One step of the tools, by the tool that ran and the target file it leaves;
\* no tool changes the source.
C15_Step ==
  \E after \in {targetFile'} : \E tool \in {last'.tool} :
    /\ (CleanSource /\ DriftNow.exit = 0 /\ tool = "generate") => SamplesIn(after)
    /\ SamplesInTarget => (DriftNow.exit = 1 /\ DriftNow.report = "drift")
    /\ (SamplesInTarget /\ tool # "sync") => SamplesIn(after)
    /\ (SamplesInTarget /\ tool = "sync") =>
         (last'.wrote /\ after = FileOf(SourceText) /\ ~SamplesIn(after))

\* C15 as stated: a generator run on a target in sync with a source that has
\* an operation and no x-codeSamples leaves samples in the target; while they
\* are there every Drift Checker run reports drift and exits with code 1; they
\* stay until the Spec Syncer runs; and that run overwrites the target with
\* the source, the samples gone.
C15_GenerateThenCheck == [][C15_Step]_vars

\* A generator run on a target in sync with a source that has an operation
\* beside a null one has failed, and the target holds no samples.
C15_Witness ==
  /\ last.tool = "generate"
  /\ last.exit = 1
  /\ CleanSource
  /\ DriftNow.exit = 0
  /\ ~SamplesInTarget


(***************************************************************************)
(* C16.  What the Spec Syncer writes, and when.                            *)
(***************************************************************************)
\* The source could not be read (the fetch failed or gave a non-2xx status,
\* or the local file is missing), or its text is no JSON.
SourceUnusable == ~SourceReadable \/ ~JsonParse(SourceText).ok

\* One Spec Syncer run, by the record and the target file it leaves.
C16_Step ==
  \E run \in {last'} : \E after \in {targetFile'} :
    run.tool = "sync" =>
      /\ run.wrote => (~SourceUnusable /\ after = FileOf(SourceText))
      /\ ~run.wrote => after = targetFile
      /\ SourceUnusable => (run.exit = 1 /\ ~run.wrote /\ after = targetFile)
      /\ remote.set =>
           \A local \in {Absent, FileOf(Stringify(DocChanged, FALSE, 0)),
                         FileOf(Stringify(DocPublic, FALSE, 0))} :
             SyncerMain(remote, local, targetFile) = [run |-> run, target |-> after]
      /\ UNCHANGED <<localSource, remote>>

\* C16: a Spec Syncer run writes the target file only with the source text,
\* read and parsed as JSON; when the source cannot be read or is no JSON it
\* exits with code 1 and leaves the target file as it was; and with
\* OPENAPI_SOURCE_URL set its outcome is the same whatever the local source
\* file is, the fetch failing or not.
C16_WriteGuard == [][C16_Step]_vars

\* The Spec Syncer has failed on a fetch that gave an error status, the local
\* source file in place, and has left the target file it found.
C16_Witness ==
  /\ last.tool = "sync"
  /\ remote.set
  /\ remote.kind = "http-error"
  /\ localSource.exists
  /\ targetFile.exists
  /\ last.exit = 1
  /\ ~last.wrote


====
